---- MODULE Spec2Model ----
(***************************************************************************)
(* State-machine model of the multi-tenant point-of-sale backend: the      *)
(* tenant-resolution middleware, the tenant-scoped route handlers and the  *)
(* shift ledger (start, close with cash reconciliation, sale recording).   *)
(* The relational store is a set of tables; every awaited storage call of  *)
(* the shift and sale handlers is one step, so that requests interleave    *)
(* between their storage calls exactly where the handlers await.           *)
(***************************************************************************)
EXTENDS Integers, Sequences, FiniteSets, TLC

\* ------------------------------------------------------------------ bounds
MaxShifts == 2   \* rows the shifts table may hold
MaxSales == 2    \* rows the transactions table may hold
MaxReqs == 2     \* requests the server may have in flight at once

VARIABLES
  businesses,    \* table businesses: sequence of tenant rows, id = index
  users,         \* table users: sequence of account rows, id = index
  categories,    \* table categories: sequence of rows, id = index
  service_types, \* table service_types: sequence of rows, id = index
  products,      \* table products: sequence of catalog rows, id = index
  tickets,       \* table tickets: sequence of ticket rows, id = index
  shifts,        \* table shifts: sequence of shift rows, id = index
  transactions,  \* table transactions: sequence of sale rows, id = index
  reqs,          \* in-flight requests, one slot per concurrently served request
  resp,          \* the response sent last
  workers,       \* how many requests the deployment serves concurrently
  quota          \* how many more requests will arrive, when that is limited

tenancy == <<businesses, users>>
catalog == <<categories, service_types, products, tickets>>
vars == <<businesses, users, categories, service_types, products, tickets,
          shifts, transactions, reqs, resp, workers, quota>>

\* ------------------------------------------------------------ plain values
NoBusiness == 0               \* business_id undefined / NULL

\* A JavaScript number: a finite value or NaN.
Num(n) == [nan |-> FALSE, v |-> n]
NaN == [nan |-> TRUE, v |-> 0]

\* A JSON body field: absent, a number, or a string that is no number ("").
Undefined == [t |-> "undefined", v |-> 0]
Blank == [t |-> "string", v |-> 0]
JNum(n) == [t |-> "number", v |-> n]

\* A nullable numeric column.
NULL == [null |-> TRUE, v |-> 0]
Col(n) == [null |-> FALSE, v |-> n]

\* JavaScript `x < 0` on a body field: "" converts to 0, undefined to NaN.
LtZero(x) == x.t = "number" /\ x.v < 0

\* parseFloat of a body field.
ParseFloat(x) == IF x.t = "number" THEN Num(x.v) ELSE NaN

\* parseFloat of a column read back from the store (null gives NaN).
ParseFloatCol(c) == IF c.null THEN NaN ELSE Num(c.v)

Plus(a, b) == IF a.nan \/ b.nan THEN NaN ELSE Num(a.v + b.v)
Minus(a, b) == IF a.nan \/ b.nan THEN NaN ELSE Num(a.v - b.v)

\* The client serialises the payload as JSON: NaN is written as null.
ToColumn(x) == IF x.nan THEN NULL ELSE Col(x.v)

\* `.single()`: the row when exactly one row matches, otherwise an error and
\* no data.
Single(rows) ==
  IF Cardinality(rows) = 1 THEN [error |-> FALSE, data |-> rows]
  ELSE [error |-> TRUE, data |-> {}]

\* ------------------------------------------------------------------ tables
\* A row removed by a hard delete keeps its index and is marked gone: ids are
\* never reused.
Live(table) == {i \in DOMAIN table : ~table[i].gone}

BusinessRow(slug) == [slug |-> slug, active |-> TRUE, gone |-> FALSE]

\* bcrypt: a hash answers only whether a password is the one it was made from.
Hash(password) == [bcrypt |-> password]
Compare(password, hash) == hash.bcrypt = password

UserRow(b, role, email) ==
  [business_id |-> b, role |-> role, email |-> email, active |-> TRUE,
   deleted_at |-> FALSE, password_hash |-> Hash("p1"), gone |-> FALSE]

\* The store at start: two tenants, each with staff, and one operator.
SeedBusinesses == <<BusinessRow("a"), BusinessRow("b")>>
SeedUsers ==
  <<UserRow(1, "admin", "e1"), UserRow(2, "cajero", "e2"),
    UserRow(NoBusiness, "super_admin", "e0")>>

\* The catalog rows: a category, a service type and a product per tenant.
CategoryRow(b, name) ==
  [business_id |-> b, name |-> name, active |-> TRUE, gone |-> FALSE]
ServiceTypeRow(b, name) ==
  [business_id |-> b, name |-> name, active |-> TRUE, gone |-> FALSE]
ProductRow(b, name, category_id, service_type_id) ==
  [business_id |-> b, name |-> name, category_id |-> category_id,
   service_type_id |-> service_type_id, active |-> TRUE, deleted_at |-> FALSE,
   gone |-> FALSE]
SeedCategories == <<CategoryRow(1, "n1"), CategoryRow(2, "n2")>>
SeedServiceTypes == <<ServiceTypeRow(1, "n1"), ServiceTypeRow(2, "n2")>>
SeedProducts == <<ProductRow(1, "n1", 1, 0), ProductRow(2, "n2", 2, 2)>>

\* The token payloads a login can have issued for the accounts on record.
Tokens == {[id |-> i, role |-> users[i].role] : i \in Live(users)}

\* ------------------------------------------------------ tenant resolution
\* A middleware that forgets to look at the tenant's active flag.
LoadBusinessContextAnyActive(tok) ==
  IF tok.role = "super_admin"
  THEN [status |-> 200, error |-> "", isSuperAdmin |-> TRUE,
        businessId |-> NoBusiness, lookups |-> 0]
  ELSE
    LET user == Single({i \in Live(users) : i = tok.id})
        bid == users[tok.id].business_id
        denied(n, why) == [status |-> 403, error |-> why,
                           isSuperAdmin |-> FALSE, businessId |-> NoBusiness,
                           lookups |-> n]
    IN IF user.error \/ bid = NoBusiness
         THEN denied(1, "Usuario no asociado a ninguna empresa")
       ELSE IF bid \notin Live(businesses)
         THEN denied(2, "Empresa no encontrada")
       ELSE [status |-> 200, error |-> "", isSuperAdmin |-> FALSE,
             businessId |-> bid, lookups |-> 2]

\* loadBusinessContext: what the middleware decides for a token. lookups
\* counts the storage reads it made.
LoadBusinessContext(tok) ==
  IF tok.role = "super_admin"
  THEN [status |-> 200, error |-> "", isSuperAdmin |-> TRUE,
        businessId |-> NoBusiness, lookups |-> 0]
  ELSE
    LET user == Single({i \in Live(users) : i = tok.id})
        denied(n, why) == [status |-> 403, error |-> why,
                           isSuperAdmin |-> FALSE, businessId |-> NoBusiness,
                           lookups |-> n]
    IN IF user.error \/ user.data = {} THEN denied(1, "Usuario no asociado a ninguna empresa")
       ELSE
         LET bid == users[CHOOSE i \in user.data : TRUE].business_id
             business == Single({b \in Live(businesses) : b = bid})
         IN IF bid = NoBusiness
              THEN denied(1, "Usuario no asociado a ninguna empresa")
            ELSE IF business.error \/ business.data = {}
              THEN denied(2, "Empresa no encontrada")
            ELSE IF ~businesses[bid].active THEN denied(2, "Empresa desactivada. Contacte a soporte.")
            ELSE [status |-> 200, error |-> "", isSuperAdmin |-> FALSE,
                  businessId |-> bid, lookups |-> 2]

\* `if (!req.isSuperAdmin && req.businessId) query.eq('business_id', ...)`:
\* whether a row of tenant b passes the handler's tenant filter.
InScope(ctx, b) ==
  (~ctx.isSuperAdmin /\ ctx.businessId # NoBusiness) => b = ctx.businessId

Idle == [op |-> "idle"]
InFlight == {s \in DOMAIN reqs : reqs[s].op # "idle"}

\* A request is taken up by the first free slot while a worker is available.
Accepts(s) ==
  /\ quota.limited => quota.left > 0
  /\ reqs[s] = Idle
  /\ Cardinality(InFlight) < workers
  /\ \A t \in 1..(s - 1) : reqs[t] # Idle

\* One of the requests still to arrive has arrived.
Arrives ==
  quota' = IF quota.limited THEN [quota EXCEPT !.left = @ - 1] ELSE quota

\* A response: the route, the account of the token it answers (req.user.id),
\* the status code and the body.
Reply(op, by, status, data) ==
  [op |-> op, by |-> by, status |-> status, data |-> data]

NoData == [none |-> TRUE]
Error(message) == [error |-> message]

\* ------------------------------------------------------------ shift ledger
ShiftRow(user_id, initial_cash, businessId) ==
  [user_id |-> user_id, business_id |-> businessId, status |-> "open",
   initial_cash |-> initial_cash, final_cash |-> NULL,
   cash_difference |-> NULL, end_time |-> 0, gone |-> FALSE]

\* A lookup that forgets the status filter: every shift of the pair.
ShiftsOfAnyStatus(user_id, businessId) ==
  {i \in Live(shifts) : /\ shifts[i].user_id = user_id
                        /\ shifts[i].business_id = businessId}

\* The open shifts of an (account, tenant) pair.
OpenShifts(user_id, businessId) ==
  {i \in Live(shifts) : /\ shifts[i].user_id = user_id
                        /\ shifts[i].business_id = businessId
                        /\ shifts[i].status = "open"}

\* Request inputs.
UserIds == 1..Len(users)
ShiftIds == 1..MaxShifts
InitialCashInputs == {Undefined, JNum(1), JNum(-1)}
FinalCashInputs == {Undefined, JNum(-1), JNum(3)}

\* Room for one more insert into a table, counting the inserts in flight:
\* a request is admitted to its insert only while the table has room.
Room(op, table, max) ==
  Len(table) + Cardinality({s \in InFlight : reqs[s].op = op}) < max

\* POST /shifts/start up to its first write: the middleware, the validation
\* and the lookup of an open shift of the account in this tenant.
StartShiftCheck(s, tok, user_id, body_cash) ==
  /\ Accepts(s)
  /\ LET ctx == LoadBusinessContext(tok)
         initial_cash == IF body_cash = Undefined THEN JNum(0) ELSE body_cash
         existingShift == Single(OpenShifts(user_id, ctx.businessId))
         fail(code, message) ==
           /\ resp' = Reply("start", tok.id, code, Error(message))
           /\ reqs' = reqs
     IN IF ctx.status # 200 THEN fail(ctx.status, ctx.error)
        ELSE IF LtZero(initial_cash)
          THEN fail(400, "El efectivo inicial no puede ser negativo")
        ELSE IF ctx.businessId = NoBusiness
          THEN fail(400, "No se pudo determinar la empresa")
        ELSE IF existingShift.data # {}
          THEN fail(400, "El usuario ya tiene un turno abierto")
        ELSE /\ Room("start", shifts, MaxShifts)
             /\ reqs' = [reqs EXCEPT ![s] =
                  [op |-> "start", tok |-> tok, user_id |-> user_id,
                   initial_cash |-> initial_cash,
                   businessId |-> ctx.businessId]]
             /\ resp' = resp
  /\ Arrives
  /\ UNCHANGED <<tenancy, catalog, shifts, transactions, workers>>

\* The insert of POST /shifts/start and its 201 response.
StartShiftInsert(s) ==
  /\ reqs[s].op = "start"
  /\ LET r == reqs[s]
     IN /\ shifts' = Append(shifts,
             ShiftRow(r.user_id, ToColumn(ParseFloat(r.initial_cash)),
                      r.businessId))
        /\ resp' = Reply("start", r.tok.id, 201, [id |-> Len(shifts) + 1])
  /\ reqs' = [reqs EXCEPT ![s] = Idle]
  /\ UNCHANGED <<tenancy, catalog, transactions, workers, quota>>

\* PUT /shifts/:id/close up to the shift lookup.
CloseShiftCheck(s, tok, id, final_cash) ==
  /\ Accepts(s)
  /\ LET ctx == LoadBusinessContext(tok)
         shift == Single({i \in Live(shifts) :
                     /\ i = id
                     /\ shifts[i].status = "open"
                     /\ InScope(ctx, shifts[i].business_id)})
         fail(code, message) ==
           /\ resp' = Reply("close", tok.id, code, Error(message))
           /\ reqs' = reqs
     IN IF ctx.status # 200 THEN fail(ctx.status, ctx.error)
        ELSE IF final_cash = Undefined
          THEN fail(400, "El efectivo final es requerido")
        ELSE IF LtZero(final_cash)
          THEN fail(400, "El efectivo final no puede ser negativo")
        ELSE IF shift.error \/ shift.data = {}
          THEN fail(404, "Turno no encontrado o ya está cerrado")
        ELSE /\ reqs' = [reqs EXCEPT ![s] =
                  [op |-> "close", pc |-> "sum", tok |-> tok, id |-> id,
                   final_cash |-> final_cash, shift |-> shifts[id],
                   cashSales |-> Num(0)]]
             /\ resp' = resp
  /\ Arrives
  /\ UNCHANGED <<tenancy, catalog, shifts, transactions, workers>>

\* A selection that forgets the status filter: every cash sale of a shift.
CashTransactionsAnyStatus(id) ==
  {t \in Live(transactions) : /\ transactions[t].shift_id = id
                              /\ transactions[t].payment_method = "cash"}

\* The completed cash sales of a shift, as the close handler selects them.
CashTransactions(id) ==
  {t \in Live(transactions) : /\ transactions[t].shift_id = id
                              /\ transactions[t].payment_method = "cash"
                              /\ transactions[t].status = "completed"}

RECURSIVE SumTotals(_)
SumTotals(ts) ==
  IF ts = {} THEN 0
  ELSE LET t == CHOOSE x \in ts : TRUE
       IN transactions[t].total + SumTotals(ts \ {t})

\* The sales lookup of the close handler: cashSales.
CloseShiftSum(s) ==
  /\ reqs[s].op = "close"
  /\ reqs[s].pc = "sum"
  /\ reqs' = [reqs EXCEPT ![s].pc = "update",
                          ![s].cashSales = Num(SumTotals(CashTransactions(reqs[s].id)))]
  /\ UNCHANGED <<tenancy, catalog, shifts, transactions, resp, workers, quota>>

\* The reconciliation arithmetic of the close handler.
Arqueo(shift, cashSales, final_cash) ==
  LET initial == ParseFloatCol(shift.initial_cash)
      expectedCash == Plus(initial, cashSales)
      cashDifference == Minus(ParseFloat(final_cash), expectedCash)
  IN [initial_cash |-> initial, cash_sales |-> cashSales,
      expected_cash |-> expectedCash, final_cash |-> ParseFloat(final_cash),
      difference |-> cashDifference,
      status |-> IF ~cashDifference.nan /\ cashDifference.v = 0 THEN "exacto"
                 ELSE IF ~cashDifference.nan /\ cashDifference.v > 0
                   THEN "sobrante"
                 ELSE "faltante"]

\* The row the close handler's update writes.
ClosedRow(row, arqueo) ==
  [row EXCEPT !.status = "closed",
              !.end_time = row.end_time + 1,
              !.final_cash = ToColumn(arqueo.final_cash),
              !.cash_difference = ToColumn(arqueo.difference)]

\* The update of the close handler (by id alone) and its 200 response.
CloseShiftUpdate(s) ==
  /\ reqs[s].op = "close"
  /\ reqs[s].pc = "update"
  /\ LET r == reqs[s]
         arqueo == Arqueo(r.shift, r.cashSales, r.final_cash)
     IN IF r.id \in Live(shifts)
        THEN /\ shifts' = [shifts EXCEPT ![r.id] = ClosedRow(shifts[r.id], arqueo)]
             /\ resp' = Reply("close", r.tok.id, 200, [id |-> r.id, arqueo |-> arqueo])
        ELSE /\ shifts' = shifts
             /\ resp' = Reply("close", r.tok.id, 500, Error("Error al cerrar turno"))
  /\ reqs' = [reqs EXCEPT ![s] = Idle]
  /\ UNCHANGED <<tenancy, catalog, transactions, workers, quota>>

\* ----------------------------------------------------------- sale journal
\* Request bodies of POST /transactions. quantity 0 stands for a missing
\* required field, total 0 for an absent total, status "" for an absent status.
SaleBody(shift_id, quantity, total, payment_method, status) ==
  [shift_id |-> shift_id, product_id |-> 1, quantity |-> quantity,
   unit_price |-> 1, total |-> total, payment_method |-> payment_method,
   status |-> status]
\* A cash sale of one unit of a product on a shift.
SaleOf(shift_id, product_id) ==
  [SaleBody(shift_id, 1, 2, "cash", "") EXCEPT !.product_id = product_id]
SaleBodies ==
  UNION {{SaleBody(i, 1, 0, "cash", ""), SaleBody(i, 1, 2, "cash", ""),
          SaleBody(i, 1, 2, "card", ""), SaleBody(i, 1, 2, "cash", "cancelled"),
          SaleBody(i, 0, 2, "cash", "")} : i \in ShiftIds}

\* The row POST /transactions inserts.
SaleRow(body, created_by, businessId) ==
  [shift_id |-> body.shift_id, product_id |-> body.product_id,
   total |-> IF body.total # 0 THEN body.total
             ELSE body.quantity * body.unit_price,
   payment_method |-> body.payment_method,
   status |-> IF body.status # "" THEN body.status ELSE "completed",
   created_by |-> created_by, business_id |-> businessId, gone |-> FALSE]

\* POST /transactions up to its insert: the middleware, the validation and
\* the lookup of the shift the sale names.
PostTransactionCheck(s, tok, body) ==
  /\ Accepts(s)
  /\ LET ctx == LoadBusinessContext(tok)
         shift == Single({i \in Live(shifts) :
                     /\ i = body.shift_id
                     /\ (~ctx.isSuperAdmin =>
                           shifts[i].business_id = ctx.businessId)})
         fail(code, message) ==
           /\ resp' = Reply("sale", tok.id, code, Error(message))
           /\ reqs' = reqs
     IN IF ctx.status # 200 THEN fail(ctx.status, ctx.error)
        ELSE IF ctx.businessId = NoBusiness
          THEN fail(400, "No se pudo determinar la empresa")
        ELSE IF body.quantity = 0 THEN fail(400, "Faltan campos requeridos")
        ELSE IF shift.data = {} \/ shifts[body.shift_id].status # "open"
          THEN fail(400, "El turno no está activo")
        ELSE /\ Room("sale", transactions, MaxSales)
             /\ reqs' = [reqs EXCEPT ![s] =
                  [op |-> "sale", tok |-> tok,
                   row |-> SaleRow(body, tok.id, ctx.businessId)]]
             /\ resp' = resp
  /\ Arrives
  /\ UNCHANGED <<tenancy, catalog, shifts, transactions, workers>>

\* The insert of POST /transactions and its 201 response.
PostTransactionInsert(s) ==
  /\ reqs[s].op = "sale"
  /\ transactions' = Append(transactions, reqs[s].row)
  /\ resp' = Reply("sale", reqs[s].tok.id, 201, [id |-> Len(transactions) + 1])
  /\ reqs' = [reqs EXCEPT ![s] = Idle]
  /\ UNCHANGED <<tenancy, catalog, shifts, workers, quota>>

\* ------------------------------------------------- handlers in one step
\* The handlers below are served one at a time, each as one step from the
\* middleware to the response.
Serve ==
  /\ quota.limited => quota.left > 0
  /\ InFlight = {}
  /\ Arrives
  /\ UNCHANGED <<reqs, workers>>

\* What a handler comes to: the status, the body and the table it wrote.
Out(status, data, table) == [status |-> status, data |-> data, table |-> table]

\* A row as a response shows it, and the rows of a read response.
Ref(table, id) == [table |-> table, id |-> id]
Rows(refs) == [rows |-> refs]

\* A by-id lookup that forgets the tenant filter.
UnscopedById(ctx, table, id) == Single({i \in Live(table) : i = id})

\* .eq('id', id) with the tenant filter of the by-id handlers, .single().
ScopedById(ctx, table, id) ==
  Single({i \in Live(table) : i = id /\ InScope(ctx, table[i].business_id)})

\* ---------------------------------------------------------------- accounts
MaxUsers == 4
UserIdInputs == 1..MaxUsers
EmailInputs == {"e1", "e3"}
RoleInputs == {"cajero", "gerente"}
ShowDeletedInputs == {"absent", "false", "only", "true", "all"}

\* `show_deleted = 'false'` in the destructuring: the default of an absent
\* query parameter.
ShowDeletedOrDefault(show_deleted) ==
  IF show_deleted = "absent" THEN "false" ELSE show_deleted

ShownDeleted(show_deleted, deleted_at) ==
  IF ShowDeletedOrDefault(show_deleted) = "false" THEN ~deleted_at
  ELSE IF ShowDeletedOrDefault(show_deleted) = "only" THEN deleted_at
  ELSE TRUE

\* GET /users
GetUsersResult(tok, show_deleted) ==
  LET ctx == LoadBusinessContext(tok)
      scoped == ~ctx.isSuperAdmin /\ ctx.businessId # NoBusiness
      data == {i \in Live(users) :
                 /\ scoped => /\ users[i].business_id = ctx.businessId
                              /\ users[i].role # "super_admin"
                 /\ ShownDeleted(show_deleted, users[i].deleted_at)}
  IN IF ctx.status # 200 THEN Out(ctx.status, Error(ctx.error), users)
     ELSE Out(200, Rows({Ref("users", i) : i \in data}), users)

GetUsers(tok, show_deleted) ==
  /\ Serve
  /\ LET r == GetUsersResult(tok, show_deleted)
     IN resp' = Reply("GET /users", tok.id, r.status, r.data)
  /\ UNCHANGED <<tenancy, catalog, shifts, transactions>>

\* GET /users/:id
GetUserResult(tok, id) ==
  LET ctx == LoadBusinessContext(tok)
      user == ScopedById(ctx, users, id)
  IN IF ctx.status # 200 THEN Out(ctx.status, Error(ctx.error), users)
     ELSE IF user.error THEN Out(404, Error("Usuario no encontrado"), users)
     ELSE Out(200, Rows({Ref("users", id)}), users)

GetUser(tok, id) ==
  /\ Serve
  /\ LET r == GetUserResult(tok, id)
     IN resp' = Reply("GET /users/:id", tok.id, r.status, r.data)
  /\ UNCHANGED <<tenancy, catalog, shifts, transactions>>

\* POST /users
PostUserResult(tok, email, role) ==
  LET ctx == LoadBusinessContext(tok)
      existingUser == Single({i \in Live(users) :
                        /\ users[i].email = email
                        /\ users[i].business_id = ctx.businessId})
  IN IF ctx.status # 200 THEN Out(ctx.status, Error(ctx.error), users)
     ELSE IF role \notin {"admin", "supervisor", "cajero"}
       THEN Out(400, Error("Rol inválido"), users)
     ELSE IF ctx.businessId = NoBusiness
       THEN Out(400, Error("Business ID no encontrado"), users)
     ELSE IF existingUser.data # {}
       THEN IF \E i \in existingUser.data : users[i].deleted_at
            THEN Out(400, Error("El email ya está registrado (usuario eliminado). Puede restaurarlo en lugar de crear uno nuevo."),
                     users)
            ELSE Out(400, Error("El email ya está registrado en esta empresa"),
                     users)
     ELSE Out(201, [id |-> Len(users) + 1],
              Append(users, UserRow(ctx.businessId, role, email)))

PostUser(tok, email, role) ==
  /\ Serve
  /\ LET r == PostUserResult(tok, email, role)
     IN /\ Len(r.table) <= MaxUsers
        /\ resp' = Reply("POST /users", tok.id, r.status, r.data)
        /\ users' = r.table
  /\ UNCHANGED <<businesses, catalog, shifts, transactions>>

\* PUT /users/:id
PutUserResult(tok, id, email, role) ==
  LET ctx == LoadBusinessContext(tok)
      existingUser == ScopedById(ctx, users, id)
      emailExists == Single({i \in Live(users) :
                       /\ users[i].email = email
                       /\ users[i].business_id = users[id].business_id
                       /\ ~users[i].deleted_at
                       /\ i # id})
  IN IF ctx.status # 200 THEN Out(ctx.status, Error(ctx.error), users)
     ELSE IF role \notin {"admin", "supervisor", "cajero"}
       THEN Out(400, Error("Rol inválido"), users)
     ELSE IF existingUser.error
       THEN Out(404, Error("Usuario no encontrado"), users)
     ELSE IF users[id].deleted_at
       THEN Out(400, Error("No se puede editar un usuario eliminado. Debe restaurarlo primero."), users)
     ELSE IF email # users[id].email /\ emailExists.data # {}
       THEN Out(400, Error("El email ya está registrado"), users)
     ELSE Out(200, [id |-> id],
              [users EXCEPT ![id].email = email, ![id].role = role])

PutUser(tok, id, email, role) ==
  /\ Serve
  /\ LET r == PutUserResult(tok, id, email, role)
     IN /\ resp' = Reply("PUT /users/:id", tok.id, r.status, r.data)
        /\ users' = r.table
  /\ UNCHANGED <<businesses, catalog, shifts, transactions>>

\* A toggle that forgets to look at the soft-delete timestamp.
ToggleUserResultAnyStage(tok, id) ==
  LET ctx == LoadBusinessContext(tok)
      user == ScopedById(ctx, users, id)
  IN IF ctx.status # 200 THEN Out(ctx.status, Error(ctx.error), users)
     ELSE IF user.error THEN Out(404, Error("Usuario no encontrado"), users)
     ELSE Out(200, [id |-> id, active |-> ~users[id].active],
              [users EXCEPT ![id].active = ~users[id].active])

\* PATCH /users/:id/toggle-active
ToggleUserResult(tok, id) ==
  LET ctx == LoadBusinessContext(tok)
      user == ScopedById(ctx, users, id)
  IN IF ctx.status # 200 THEN Out(ctx.status, Error(ctx.error), users)
     ELSE IF user.error THEN Out(404, Error("Usuario no encontrado"), users)
     ELSE IF users[id].deleted_at
       THEN Out(400, Error("No se puede modificar un usuario eliminado. Debe restaurarlo primero."), users)
     ELSE Out(200, [id |-> id, active |-> ~users[id].active],
              [users EXCEPT ![id].active = ~users[id].active])

ToggleUser(tok, id) ==
  /\ Serve
  /\ LET r == ToggleUserResult(tok, id)
     IN /\ resp' = Reply("PATCH /users/:id/toggle-active", tok.id,
                          r.status, r.data)
        /\ users' = r.table
  /\ UNCHANGED <<businesses, catalog, shifts, transactions>>

\* DELETE /users/:id
DeleteUserResult(tok, id) ==
  LET ctx == LoadBusinessContext(tok)
      user == ScopedById(ctx, users, id)
  IN IF ctx.status # 200 THEN Out(ctx.status, Error(ctx.error), users)
     ELSE IF user.error THEN Out(404, Error("Usuario no encontrado"), users)
     ELSE IF users[id].deleted_at
       THEN Out(400, Error("El usuario ya está eliminado"), users)
     ELSE Out(200, [id |-> id],
              [users EXCEPT ![id].deleted_at = TRUE, ![id].active = FALSE])

DeleteUser(tok, id) ==
  /\ Serve
  /\ LET r == DeleteUserResult(tok, id)
     IN /\ resp' = Reply("DELETE /users/:id", tok.id, r.status, r.data)
        /\ users' = r.table
  /\ UNCHANGED <<businesses, catalog, shifts, transactions>>

\* A restore that clears the timestamp and leaves the active flag alone.
RestoreUserResultKeepsFlag(tok, id) ==
  LET ctx == LoadBusinessContext(tok)
      user == ScopedById(ctx, users, id)
  IN IF ctx.status # 200 THEN Out(ctx.status, Error(ctx.error), users)
     ELSE IF user.error THEN Out(404, Error("Usuario no encontrado"), users)
     ELSE IF ~users[id].deleted_at
       THEN Out(400, Error("El usuario no está eliminado"), users)
     ELSE Out(200, [id |-> id], [users EXCEPT ![id].deleted_at = FALSE])

\* PATCH /users/:id/restore
RestoreUserResult(tok, id) ==
  LET ctx == LoadBusinessContext(tok)
      user == ScopedById(ctx, users, id)
  IN IF ctx.status # 200 THEN Out(ctx.status, Error(ctx.error), users)
     ELSE IF user.error THEN Out(404, Error("Usuario no encontrado"), users)
     ELSE IF ~users[id].deleted_at
       THEN Out(400, Error("El usuario no está eliminado"), users)
     ELSE Out(200, [id |-> id],
              [users EXCEPT ![id].deleted_at = FALSE, ![id].active = TRUE])

RestoreUser(tok, id) ==
  /\ Serve
  /\ LET r == RestoreUserResult(tok, id)
     IN /\ resp' = Reply("PATCH /users/:id/restore", tok.id, r.status, r.data)
        /\ users' = r.table
  /\ UNCHANGED <<businesses, catalog, shifts, transactions>>

\* ------------------------------------------------------------ catalog items
MaxProducts == 3
MaxCategories == 3
ProductIds == 1..MaxProducts
CategoryIds == 1..MaxCategories
NameInputs == {"n1", "n3"}

\* The categories joined into a product response.
ProductRefs(ps) ==
  {Ref("products", i) : i \in ps}
  \cup {Ref("categories", products[i].category_id) :
          i \in {j \in ps : products[j].category_id \in Live(categories)}}

\* GET /products
GetProductsResult(tok, show_deleted) ==
  LET ctx == LoadBusinessContext(tok)
      data == {i \in Live(products) :
                 /\ InScope(ctx, products[i].business_id)
                 /\ ShownDeleted(show_deleted, products[i].deleted_at)}
  IN IF ctx.status # 200 THEN Out(ctx.status, Error(ctx.error), products)
     ELSE Out(200, Rows(ProductRefs(data)), products)

GetProducts(tok, show_deleted) ==
  /\ Serve
  /\ LET r == GetProductsResult(tok, show_deleted)
     IN resp' = Reply("GET /products", tok.id, r.status, r.data)
  /\ UNCHANGED <<tenancy, catalog, shifts, transactions>>

\* GET /products/:id
GetProductResult(tok, id) ==
  LET ctx == LoadBusinessContext(tok)
      product == ScopedById(ctx, products, id)
  IN IF ctx.status # 200 THEN Out(ctx.status, Error(ctx.error), products)
     ELSE IF product.error
       THEN Out(404, Error("Producto no encontrado"), products)
     ELSE Out(200, Rows(ProductRefs({id})), products)

GetProduct(tok, id) ==
  /\ Serve
  /\ LET r == GetProductResult(tok, id)
     IN resp' = Reply("GET /products/:id", tok.id, r.status, r.data)
  /\ UNCHANGED <<tenancy, catalog, shifts, transactions>>

\* The active category of a tenant a product write names.
ActiveCategory(category_id, businessId) ==
  Single({c \in Live(categories) : /\ c = category_id
                                   /\ categories[c].business_id = businessId
                                   /\ categories[c].active})

\* POST /products
PostProductResult(tok, name, category_id) ==
  LET ctx == LoadBusinessContext(tok)
      category == ActiveCategory(category_id, ctx.businessId)
      existingProduct == Single({i \in Live(products) :
                           /\ products[i].name = name
                           /\ products[i].business_id = ctx.businessId})
  IN IF ctx.status # 200 THEN Out(ctx.status, Error(ctx.error), products)
     ELSE IF ctx.businessId = NoBusiness
       THEN Out(400, Error("Business ID no encontrado"), products)
     ELSE IF category.error
       THEN Out(400, Error("Categoría no encontrada o inactiva"), products)
     ELSE IF existingProduct.data # {}
       THEN IF \E i \in existingProduct.data : products[i].deleted_at
            THEN Out(400, Error("Ya existe un producto con ese nombre (eliminado). Puede restaurarlo en lugar de crear uno nuevo."),
                     products)
            ELSE Out(400, Error("Ya existe un producto con ese nombre en tu empresa"),
                     products)
     ELSE Out(201, [id |-> Len(products) + 1],
              Append(products,
                     ProductRow(ctx.businessId, name, category_id, 0)))

PostProduct(tok, name, category_id) ==
  /\ Serve
  /\ LET r == PostProductResult(tok, name, category_id)
     IN /\ Len(r.table) <= MaxProducts
        /\ resp' = Reply("POST /products", tok.id, r.status, r.data)
        /\ products' = r.table
  /\ UNCHANGED <<tenancy, categories, service_types, tickets, shifts,
                 transactions>>

\* PUT /products/:id
PutProductResult(tok, id, name, category_id) ==
  LET ctx == LoadBusinessContext(tok)
      existingProduct == ScopedById(ctx, products, id)
      category == ActiveCategory(category_id, products[id].business_id)
      nameExists == Single({i \in Live(products) :
                      /\ products[i].name = name
                      /\ products[i].business_id = products[id].business_id
                      /\ ~products[i].deleted_at
                      /\ i # id})
  IN IF ctx.status # 200 THEN Out(ctx.status, Error(ctx.error), products)
     ELSE IF existingProduct.error
       THEN Out(404, Error("Producto no encontrado"), products)
     ELSE IF products[id].deleted_at
       THEN Out(400, Error("No se puede editar un producto eliminado. Debe restaurarlo primero."),
                products)
     ELSE IF category.error
       THEN Out(400, Error("Categoría no encontrada o inactiva"), products)
     ELSE IF name # products[id].name /\ nameExists.data # {}
       THEN Out(400, Error("Ya existe un producto con ese nombre"), products)
     ELSE Out(200, [id |-> id],
              [products EXCEPT ![id].name = name,
                               ![id].category_id = category_id])

PutProduct(tok, id, name, category_id) ==
  /\ Serve
  /\ LET r == PutProductResult(tok, id, name, category_id)
     IN /\ resp' = Reply("PUT /products/:id", tok.id, r.status, r.data)
        /\ products' = r.table
  /\ UNCHANGED <<tenancy, categories, service_types, tickets, shifts,
                 transactions>>

\* PATCH /products/:id/toggle-active
ToggleProductResult(tok, id) ==
  LET ctx == LoadBusinessContext(tok)
      product == ScopedById(ctx, products, id)
  IN IF ctx.status # 200 THEN Out(ctx.status, Error(ctx.error), products)
     ELSE IF product.error
       THEN Out(404, Error("Producto no encontrado"), products)
     ELSE IF products[id].deleted_at
       THEN Out(400, Error("No se puede modificar un producto eliminado. Debe restaurarlo primero."),
                products)
     ELSE Out(200, [id |-> id, active |-> ~products[id].active],
              [products EXCEPT ![id].active = ~products[id].active])

ToggleProduct(tok, id) ==
  /\ Serve
  /\ LET r == ToggleProductResult(tok, id)
     IN /\ resp' = Reply("PATCH /products/:id/toggle-active", tok.id,
                          r.status, r.data)
        /\ products' = r.table
  /\ UNCHANGED <<tenancy, categories, service_types, tickets, shifts,
                 transactions>>

\* DELETE /products/:id
DeleteProductResult(tok, id) ==
  LET ctx == LoadBusinessContext(tok)
      product == ScopedById(ctx, products, id)
  IN IF ctx.status # 200 THEN Out(ctx.status, Error(ctx.error), products)
     ELSE IF product.error
       THEN Out(404, Error("Producto no encontrado"), products)
     ELSE IF products[id].deleted_at
       THEN Out(400, Error("El producto ya está eliminado"), products)
     ELSE Out(200, [id |-> id],
              [products EXCEPT ![id].deleted_at = TRUE, ![id].active = FALSE])

DeleteProduct(tok, id) ==
  /\ Serve
  /\ LET r == DeleteProductResult(tok, id)
     IN /\ resp' = Reply("DELETE /products/:id", tok.id, r.status, r.data)
        /\ products' = r.table
  /\ UNCHANGED <<tenancy, categories, service_types, tickets, shifts,
                 transactions>>

\* PATCH /products/:id/restore
RestoreProductResult(tok, id) ==
  LET ctx == LoadBusinessContext(tok)
      product == ScopedById(ctx, products, id)
  IN IF ctx.status # 200 THEN Out(ctx.status, Error(ctx.error), products)
     ELSE IF product.error
       THEN Out(404, Error("Producto no encontrado"), products)
     ELSE IF ~products[id].deleted_at
       THEN Out(400, Error("El producto no está eliminado"), products)
     ELSE Out(200, [id |-> id],
              [products EXCEPT ![id].deleted_at = FALSE, ![id].active = TRUE])

RestoreProduct(tok, id) ==
  /\ Serve
  /\ LET r == RestoreProductResult(tok, id)
     IN /\ resp' = Reply("PATCH /products/:id/restore", tok.id,
                          r.status, r.data)
        /\ products' = r.table
  /\ UNCHANGED <<tenancy, categories, service_types, tickets, shifts,
                 transactions>>

\* --------------------------------------------------------------- categories
\* The products naming a category, whatever their tenant.
ProductsOfCategory(id) == {i \in Live(products) : products[i].category_id = id}

\* GET /categories
GetCategoriesResult(tok) ==
  LET ctx == LoadBusinessContext(tok)
      data == {i \in Live(categories) : InScope(ctx, categories[i].business_id)}
  IN IF ctx.status # 200 THEN Out(ctx.status, Error(ctx.error), categories)
     ELSE Out(200, Rows({Ref("categories", i) : i \in data}), categories)

GetCategories(tok) ==
  /\ Serve
  /\ LET r == GetCategoriesResult(tok)
     IN resp' = Reply("GET /categories", tok.id, r.status, r.data)
  /\ UNCHANGED <<tenancy, catalog, shifts, transactions>>

\* GET /categories/:id
GetCategoryResult(tok, id) ==
  LET ctx == LoadBusinessContext(tok)
      category == ScopedById(ctx, categories, id)
  IN IF ctx.status # 200 THEN Out(ctx.status, Error(ctx.error), categories)
     ELSE IF category.error
       THEN Out(404, Error("Categoría no encontrada"), categories)
     ELSE Out(200, Rows({Ref("categories", id)}), categories)

GetCategory(tok, id) ==
  /\ Serve
  /\ LET r == GetCategoryResult(tok, id)
     IN resp' = Reply("GET /categories/:id", tok.id, r.status, r.data)
  /\ UNCHANGED <<tenancy, catalog, shifts, transactions>>

\* POST /categories
PostCategoryResult(tok, name) ==
  LET ctx == LoadBusinessContext(tok)
      existingCategory == Single({i \in Live(categories) :
                            /\ categories[i].name = name
                            /\ categories[i].business_id = ctx.businessId})
  IN IF ctx.status # 200 THEN Out(ctx.status, Error(ctx.error), categories)
     ELSE IF ctx.businessId = NoBusiness
       THEN Out(400, Error("Business ID no encontrado"), categories)
     ELSE IF existingCategory.data # {}
       THEN Out(400, Error("Ya existe una categoría con ese nombre"),
                categories)
     ELSE Out(201, [id |-> Len(categories) + 1],
              Append(categories, CategoryRow(ctx.businessId, name)))

PostCategory(tok, name) ==
  /\ Serve
  /\ LET r == PostCategoryResult(tok, name)
     IN /\ Len(r.table) <= MaxCategories
        /\ resp' = Reply("POST /categories", tok.id, r.status, r.data)
        /\ categories' = r.table
  /\ UNCHANGED <<tenancy, service_types, products, tickets, shifts,
                 transactions>>

\* PUT /categories/:id
PutCategoryResult(tok, id, name) ==
  LET ctx == LoadBusinessContext(tok)
      existingCategory == ScopedById(ctx, categories, id)
      nameExists == Single({i \in Live(categories) :
                      /\ categories[i].name = name
                      /\ categories[i].business_id = categories[id].business_id
                      /\ i # id})
  IN IF ctx.status # 200 THEN Out(ctx.status, Error(ctx.error), categories)
     ELSE IF existingCategory.error
       THEN Out(404, Error("Categoría no encontrada"), categories)
     ELSE IF name # categories[id].name /\ nameExists.data # {}
       THEN Out(400, Error("Ya existe una categoría con ese nombre"),
                categories)
     ELSE Out(200, [id |-> id], [categories EXCEPT ![id].name = name])

PutCategory(tok, id, name) ==
  /\ Serve
  /\ LET r == PutCategoryResult(tok, id, name)
     IN /\ resp' = Reply("PUT /categories/:id", tok.id, r.status, r.data)
        /\ categories' = r.table
  /\ UNCHANGED <<tenancy, service_types, products, tickets, shifts,
                 transactions>>

\* PATCH /categories/:id/toggle-active
ToggleCategoryResult(tok, id) ==
  LET ctx == LoadBusinessContext(tok)
      category == ScopedById(ctx, categories, id)
  IN IF ctx.status # 200 THEN Out(ctx.status, Error(ctx.error), categories)
     ELSE IF category.error
       THEN Out(404, Error("Categoría no encontrada"), categories)
     ELSE IF categories[id].active /\ ProductsOfCategory(id) # {}
       THEN Out(400, Error("No se puede desactivar"), categories)
     ELSE Out(200, [id |-> id, active |-> ~categories[id].active],
              [categories EXCEPT ![id].active = ~categories[id].active])

ToggleCategory(tok, id) ==
  /\ Serve
  /\ LET r == ToggleCategoryResult(tok, id)
     IN /\ resp' = Reply("PATCH /categories/:id/toggle-active", tok.id,
                          r.status, r.data)
        /\ categories' = r.table
  /\ UNCHANGED <<tenancy, service_types, products, tickets, shifts,
                 transactions>>

\* DELETE /categories/:id
DeleteCategoryResult(tok, id) ==
  LET ctx == LoadBusinessContext(tok)
      category == ScopedById(ctx, categories, id)
  IN IF ctx.status # 200 THEN Out(ctx.status, Error(ctx.error), categories)
     ELSE IF category.error
       THEN Out(404, Error("Categoría no encontrada"), categories)
     ELSE IF ProductsOfCategory(id) # {}
       THEN Out(400, [error |-> "No se puede eliminar. Hay ${count} producto(s) usando esta categoría",
                      count |-> Cardinality(ProductsOfCategory(id))],
                categories)
     ELSE Out(200, NoData, [categories EXCEPT ![id].gone = TRUE])

DeleteCategory(tok, id) ==
  /\ Serve
  /\ LET r == DeleteCategoryResult(tok, id)
     IN /\ resp' = Reply("DELETE /categories/:id", tok.id, r.status, r.data)
        /\ categories' = r.table
  /\ UNCHANGED <<tenancy, service_types, products, tickets, shifts,
                 transactions>>

\* ------------------------------------------------------------ service types
MaxServiceTypes == 3
ServiceTypeIds == 1..MaxServiceTypes

\* .eq('id', id).eq('business_id', businessId).single()
ServiceTypeById(businessId, id) ==
  Single({i \in Live(service_types) :
            i = id /\ service_types[i].business_id = businessId})

\* GET /service-types
GetServiceTypesResult(tok) ==
  LET ctx == LoadBusinessContext(tok)
      data == {i \in Live(service_types) :
                 service_types[i].business_id = ctx.businessId}
  IN IF ctx.status # 200 THEN Out(ctx.status, Error(ctx.error), service_types)
     ELSE IF ctx.businessId = NoBusiness
       THEN Out(400, Error("Business ID no encontrado"), service_types)
     ELSE Out(200, Rows({Ref("service_types", i) : i \in data}), service_types)

GetServiceTypes(tok) ==
  /\ Serve
  /\ LET r == GetServiceTypesResult(tok)
     IN resp' = Reply("GET /service-types", tok.id, r.status, r.data)
  /\ UNCHANGED <<tenancy, catalog, shifts, transactions>>

\* GET /service-types/:id: the error of .single() is thrown into the catch.
GetServiceTypeResult(tok, id) ==
  LET ctx == LoadBusinessContext(tok)
      found == ServiceTypeById(ctx.businessId, id)
  IN IF ctx.status # 200 THEN Out(ctx.status, Error(ctx.error), service_types)
     ELSE IF found.error
       THEN Out(500, Error("Error al obtener tipo de servicio"), service_types)
     ELSE IF found.data = {}
       THEN Out(404, Error("Tipo de servicio no encontrado"), service_types)
     ELSE Out(200, Rows({Ref("service_types", id)}), service_types)

GetServiceType(tok, id) ==
  /\ Serve
  /\ LET r == GetServiceTypeResult(tok, id)
     IN resp' = Reply("GET /service-types/:id", tok.id, r.status, r.data)
  /\ UNCHANGED <<tenancy, catalog, shifts, transactions>>

\* POST /service-types
PostServiceTypeResult(tok, name) ==
  LET ctx == LoadBusinessContext(tok)
      existing == Single({i \in Live(service_types) :
                    /\ service_types[i].business_id = ctx.businessId
                    /\ service_types[i].name = name})
  IN IF ctx.status # 200 THEN Out(ctx.status, Error(ctx.error), service_types)
     ELSE IF ctx.businessId = NoBusiness
       THEN Out(400, Error("Business ID no encontrado"), service_types)
     ELSE IF existing.data # {}
       THEN Out(400, Error("Ya existe un tipo de servicio con ese nombre"),
                service_types)
     ELSE Out(201, [id |-> Len(service_types) + 1],
              Append(service_types, ServiceTypeRow(ctx.businessId, name)))

PostServiceType(tok, name) ==
  /\ Serve
  /\ LET r == PostServiceTypeResult(tok, name)
     IN /\ Len(r.table) <= MaxServiceTypes
        /\ resp' = Reply("POST /service-types", tok.id, r.status, r.data)
        /\ service_types' = r.table
  /\ UNCHANGED <<tenancy, categories, products, tickets, shifts,
                 transactions>>

\* PUT /service-types/:id
PutServiceTypeResult(tok, id, name) ==
  LET ctx == LoadBusinessContext(tok)
      existing == ServiceTypeById(ctx.businessId, id)
      duplicate == Single({i \in Live(service_types) :
                     /\ service_types[i].business_id = ctx.businessId
                     /\ service_types[i].name = name
                     /\ i # id})
  IN IF ctx.status # 200 THEN Out(ctx.status, Error(ctx.error), service_types)
     ELSE IF existing.data = {}
       THEN Out(404, Error("Tipo de servicio no encontrado"), service_types)
     ELSE IF duplicate.data # {}
       THEN Out(400, Error("Ya existe otro tipo de servicio con ese nombre"),
                service_types)
     ELSE Out(200, [id |-> id], [service_types EXCEPT ![id].name = name])

PutServiceType(tok, id, name) ==
  /\ Serve
  /\ LET r == PutServiceTypeResult(tok, id, name)
     IN /\ resp' = Reply("PUT /service-types/:id", tok.id, r.status, r.data)
        /\ service_types' = r.table
  /\ UNCHANGED <<tenancy, categories, products, tickets, shifts,
                 transactions>>

\* PATCH /service-types/:id/toggle-active
ToggleServiceTypeResult(tok, id) ==
  LET ctx == LoadBusinessContext(tok)
      current == ServiceTypeById(ctx.businessId, id)
  IN IF ctx.status # 200 THEN Out(ctx.status, Error(ctx.error), service_types)
     ELSE IF current.data = {}
       THEN Out(404, Error("Tipo de servicio no encontrado"), service_types)
     ELSE Out(200, [id |-> id, active |-> ~service_types[id].active],
              [service_types EXCEPT ![id].active = ~service_types[id].active])

ToggleServiceType(tok, id) ==
  /\ Serve
  /\ LET r == ToggleServiceTypeResult(tok, id)
     IN /\ resp' = Reply("PATCH /service-types/:id/toggle-active", tok.id,
                          r.status, r.data)
        /\ service_types' = r.table
  /\ UNCHANGED <<tenancy, categories, products, tickets, shifts,
                 transactions>>

\* DELETE /service-types/:id: the products check is by service_type_id
\* alone; the delete matches id and tenant and succeeds on no row as well.
DeleteServiceTypeResult(tok, id) ==
  LET ctx == LoadBusinessContext(tok)
      using == {i \in Live(products) : products[i].service_type_id = id}
      matched == {i \in Live(service_types) :
                    i = id /\ service_types[i].business_id = ctx.businessId}
  IN IF ctx.status # 200 THEN Out(ctx.status, Error(ctx.error), service_types)
     ELSE IF using # {}
       THEN Out(400, Error("No se puede eliminar. Hay productos usando este tipo de servicio."),
                service_types)
     ELSE Out(200, NoData,
              [i \in DOMAIN service_types |->
                 IF i \in matched
                 THEN [service_types[i] EXCEPT !.gone = TRUE]
                 ELSE service_types[i]])

DeleteServiceType(tok, id) ==
  /\ Serve
  /\ LET r == DeleteServiceTypeResult(tok, id)
     IN /\ resp' = Reply("DELETE /service-types/:id", tok.id, r.status, r.data)
        /\ service_types' = r.table
  /\ UNCHANGED <<tenancy, categories, products, tickets, shifts,
                 transactions>>

\* ------------------------------------------------------------------ tickets
MaxTickets == 2
TicketIds == 1..MaxTickets

TicketRow(businessId, created_by) ==
  [business_id |-> businessId, created_by |-> created_by, printed |-> FALSE,
   sent_whatsapp |-> FALSE, gone |-> FALSE]

\* The account and the tenant joined into a ticket response.
TicketRefs(ts) ==
  {Ref("tickets", i) : i \in ts}
  \cup {Ref("users", tickets[i].created_by) :
          i \in {j \in ts : tickets[j].created_by \in Live(users)}}
  \cup {Ref("businesses", tickets[i].business_id) :
          i \in {j \in ts : tickets[j].business_id \in Live(businesses)}}

\* POST /tickets
PostTicketResult(tok) ==
  LET ctx == LoadBusinessContext(tok)
  IN IF ctx.status # 200 THEN Out(ctx.status, Error(ctx.error), tickets)
     ELSE IF ctx.businessId = NoBusiness
       THEN Out(400, Error("Business ID no encontrado"), tickets)
     ELSE Out(201, [id |-> Len(tickets) + 1],
              Append(tickets, TicketRow(ctx.businessId, tok.id)))

PostTicket(tok) ==
  /\ Serve
  /\ LET r == PostTicketResult(tok)
     IN /\ Len(r.table) <= MaxTickets
        /\ resp' = Reply("POST /tickets", tok.id, r.status, r.data)
        /\ tickets' = r.table
  /\ UNCHANGED <<tenancy, categories, service_types, products, shifts,
                 transactions>>

\* GET /tickets
GetTicketsResult(tok) ==
  LET ctx == LoadBusinessContext(tok)
      data == {i \in Live(tickets) : InScope(ctx, tickets[i].business_id)}
  IN IF ctx.status # 200 THEN Out(ctx.status, Error(ctx.error), tickets)
     ELSE Out(200, Rows(TicketRefs(data)), tickets)

GetTickets(tok) ==
  /\ Serve
  /\ LET r == GetTicketsResult(tok)
     IN resp' = Reply("GET /tickets", tok.id, r.status, r.data)
  /\ UNCHANGED <<tenancy, catalog, shifts, transactions>>

\* GET /tickets/:id
GetTicketResult(tok, id) ==
  LET ctx == LoadBusinessContext(tok)
      ticket == ScopedById(ctx, tickets, id)
  IN IF ctx.status # 200 THEN Out(ctx.status, Error(ctx.error), tickets)
     ELSE IF ticket.error
       THEN Out(404, Error("Ticket no encontrado"), tickets)
     ELSE Out(200, Rows(TicketRefs({id})), tickets)

GetTicket(tok, id) ==
  /\ Serve
  /\ LET r == GetTicketResult(tok, id)
     IN resp' = Reply("GET /tickets/:id", tok.id, r.status, r.data)
  /\ UNCHANGED <<tenancy, catalog, shifts, transactions>>

\* PATCH /tickets/:id/mark-printed
MarkPrintedResult(tok, id) ==
  LET ctx == LoadBusinessContext(tok)
      ticket == ScopedById(ctx, tickets, id)
  IN IF ctx.status # 200 THEN Out(ctx.status, Error(ctx.error), tickets)
     ELSE IF ticket.error
       THEN Out(404, Error("Ticket no encontrado"), tickets)
     ELSE Out(200, [id |-> id], [tickets EXCEPT ![id].printed = TRUE])

MarkPrinted(tok, id) ==
  /\ Serve
  /\ LET r == MarkPrintedResult(tok, id)
     IN /\ resp' = Reply("PATCH /tickets/:id/mark-printed", tok.id,
                          r.status, r.data)
        /\ tickets' = r.table
  /\ UNCHANGED <<tenancy, categories, service_types, products, shifts,
                 transactions>>

\* PATCH /tickets/:id/mark-sent
MarkSentResult(tok, id) ==
  LET ctx == LoadBusinessContext(tok)
      ticket == ScopedById(ctx, tickets, id)
  IN IF ctx.status # 200 THEN Out(ctx.status, Error(ctx.error), tickets)
     ELSE IF ticket.error
       THEN Out(404, Error("Ticket no encontrado"), tickets)
     ELSE Out(200, [id |-> id], [tickets EXCEPT ![id].sent_whatsapp = TRUE])

MarkSent(tok, id) ==
  /\ Serve
  /\ LET r == MarkSentResult(tok, id)
     IN /\ resp' = Reply("PATCH /tickets/:id/mark-sent", tok.id,
                          r.status, r.data)
        /\ tickets' = r.table
  /\ UNCHANGED <<tenancy, categories, service_types, products, shifts,
                 transactions>>

\* ------------------------------------------------- shift and sale listings
\* The accounts joined into a shift response.
ShiftRefs(ss) ==
  {Ref("shifts", i) : i \in ss}
  \cup {Ref("users", shifts[i].user_id) :
          i \in {j \in ss : shifts[j].user_id \in Live(users)}}

\* GET /shifts and GET /shifts/active
GetShiftsResult(tok, onlyOpen) ==
  LET ctx == LoadBusinessContext(tok)
      data == {i \in Live(shifts) :
                 /\ InScope(ctx, shifts[i].business_id)
                 /\ onlyOpen => shifts[i].status = "open"}
  IN IF ctx.status # 200 THEN Out(ctx.status, Error(ctx.error), shifts)
     ELSE Out(200, Rows(ShiftRefs(data)), shifts)

GetShifts(tok) ==
  /\ Serve
  /\ LET r == GetShiftsResult(tok, FALSE)
     IN resp' = Reply("GET /shifts", tok.id, r.status, r.data)
  /\ UNCHANGED <<tenancy, catalog, shifts, transactions>>

GetActiveShifts(tok) ==
  /\ Serve
  /\ LET r == GetShiftsResult(tok, TRUE)
     IN resp' = Reply("GET /shifts/active", tok.id, r.status, r.data)
  /\ UNCHANGED <<tenancy, catalog, shifts, transactions>>

\* The products and their service types joined into a sale response.
SaleProductRefs(ts) ==
  LET ps == {transactions[t].product_id : t \in ts} \cap Live(products)
  IN {Ref("transactions", t) : t \in ts}
     \cup {Ref("products", i) : i \in ps}
     \cup {Ref("service_types", products[i].service_type_id) :
             i \in {j \in ps : products[j].service_type_id
                                 \in Live(service_types)}}

\* GET /transactions
GetTransactionsResult(tok) ==
  LET ctx == LoadBusinessContext(tok)
      data == {t \in Live(transactions) :
                 InScope(ctx, transactions[t].business_id)}
      joined == {transactions[t].shift_id : t \in data} \cap Live(shifts)
  IN IF ctx.status # 200 THEN Out(ctx.status, Error(ctx.error), transactions)
     ELSE Out(200, Rows(SaleProductRefs(data) \cup ShiftRefs(joined)),
              transactions)

GetTransactions(tok) ==
  /\ Serve
  /\ LET r == GetTransactionsResult(tok)
     IN resp' = Reply("GET /transactions", tok.id, r.status, r.data)
  /\ UNCHANGED <<tenancy, catalog, shifts, transactions>>

\* GET /transactions/shift/:shift_id
GetShiftTransactionsResult(tok, shift_id) ==
  LET ctx == LoadBusinessContext(tok)
      data == {t \in Live(transactions) :
                 /\ transactions[t].shift_id = shift_id
                 /\ InScope(ctx, transactions[t].business_id)}
  IN IF ctx.status # 200 THEN Out(ctx.status, Error(ctx.error), transactions)
     ELSE Out(200, Rows(SaleProductRefs(data)), transactions)

GetShiftTransactions(tok, shift_id) ==
  /\ Serve
  /\ LET r == GetShiftTransactionsResult(tok, shift_id)
     IN resp' = Reply("GET /transactions/shift/:shift_id", tok.id,
                       r.status, r.data)
  /\ UNCHANGED <<tenancy, catalog, shifts, transactions>>

\* ------------------------------------------------------------------ tenants
MaxBusinesses == 3
BusinessIds == 1..MaxBusinesses
SlugInputs == {"a", "C"}

\* slug.toLowerCase() on the slugs a request may carry.
ToLowerCase(slug) == IF slug = "C" THEN "c" ELSE IF slug = "A" THEN "a" ELSE slug

\* requireSuperAdmin in front of every tenant-administration route.
RequireSuperAdmin(ctx) == ctx.isSuperAdmin

\* PATCH /businesses/:id/toggle-active
ToggleBusinessResult(tok, id) ==
  LET ctx == LoadBusinessContext(tok)
      business == Single({b \in Live(businesses) : b = id})
  IN IF ctx.status # 200 THEN Out(ctx.status, Error(ctx.error), businesses)
     ELSE IF ~RequireSuperAdmin(ctx)
       THEN Out(403, Error("Solo super administradores pueden acceder a esta función"),
                businesses)
     ELSE IF business.error
       THEN Out(404, Error("Empresa no encontrada"), businesses)
     ELSE Out(200, [id |-> id, active |-> ~businesses[id].active],
              [businesses EXCEPT ![id].active = ~businesses[id].active])

ToggleBusiness(tok, id) ==
  /\ Serve
  /\ LET r == ToggleBusinessResult(tok, id)
     IN /\ resp' = Reply("PATCH /businesses/:id/toggle-active", tok.id,
                          r.status, r.data)
        /\ businesses' = r.table
  /\ UNCHANGED <<users, catalog, shifts, transactions>>

\* POST /businesses: the tenant row and its owner account. tables is the
\* pair of tables the handler leaves.
PostBusinessResult(tok, slug, adminEmail) ==
  LET ctx == LoadBusinessContext(tok)
      existingBusiness == Single({b \in Live(businesses) :
                                    businesses[b].slug = slug})
      existingUser == Single({i \in Live(users) : users[i].email = adminEmail})
      kept == <<businesses, users>>
  IN IF ctx.status # 200 THEN Out(ctx.status, Error(ctx.error), kept)
     ELSE IF ~RequireSuperAdmin(ctx)
       THEN Out(403, Error("Solo super administradores pueden acceder a esta función"),
                kept)
     ELSE IF existingBusiness.data # {}
       THEN Out(400, Error("El slug ya está en uso"), kept)
     ELSE IF existingUser.data # {}
       THEN Out(400, Error("El email del administrador ya está registrado"),
                kept)
     ELSE Out(201, [id |-> Len(businesses) + 1, adminUser |-> Len(users) + 1],
              <<Append(businesses, BusinessRow(ToLowerCase(slug))),
                Append(users,
                       UserRow(Len(businesses) + 1, "admin", adminEmail))>>)

PostBusiness(tok, slug, adminEmail) ==
  /\ Serve
  /\ LET r == PostBusinessResult(tok, slug, adminEmail)
     IN /\ Len(r.table[1]) <= MaxBusinesses
        /\ Len(r.table[2]) <= MaxUsers
        /\ resp' = Reply("POST /businesses", tok.id, r.status, r.data)
        /\ businesses' = r.table[1]
        /\ users' = r.table[2]
  /\ UNCHANGED <<catalog, shifts, transactions>>

\* ------------------------------------------------------------------ sessions
PasswordInputs == {"", "p1", "p2"}
NewPasswordInputs == {"", "abc", "p2"}

\* password.length < 6
TooShort(password) == password = "abc"

\* The one active account with the email, as POST /auth/login looks it up.
LoginUser(email) ==
  Single({i \in Live(users) : users[i].email = email /\ users[i].active})

\* The account a login request speaks for: the one found, if one is found.
LoginBy(email) ==
  IF LoginUser(email).error THEN 0 ELSE CHOOSE i \in LoginUser(email).data : TRUE

\* POST /auth/login
LoginResult(email, password) ==
  LET user == LoginUser(email)
      id == LoginBy(email)
  IN IF email = "" \/ password = ""
       THEN Out(400, Error("Email y contraseña son requeridos"), users)
     ELSE IF user.error THEN Out(401, Error("Credenciales inválidas"), users)
     ELSE IF ~Compare(password, users[id].password_hash)
       THEN Out(401, Error("Credenciales inválidas"), users)
     ELSE Out(200, [token |-> [id |-> id, role |-> users[id].role],
                    business_id |-> users[id].business_id], users)

Login(email, password) ==
  /\ Serve
  /\ LET r == LoginResult(email, password)
     IN resp' = Reply("POST /auth/login", LoginBy(email), r.status, r.data)
  /\ UNCHANGED <<tenancy, catalog, shifts, transactions>>

\* GET /auth/verify
Verify(tok) ==
  /\ Serve
  /\ resp' = Reply("GET /auth/verify", tok.id, 200, [user |-> tok])
  /\ UNCHANGED <<tenancy, catalog, shifts, transactions>>

\* POST /auth/change-password
ChangePasswordResult(tok, currentPassword, newPassword) ==
  LET user == Single({i \in Live(users) : i = tok.id})
  IN IF currentPassword = "" \/ newPassword = ""
       THEN Out(400, Error("Contraseña actual y nueva son requeridas"), users)
     ELSE IF TooShort(newPassword)
       THEN Out(400, Error("La contraseña debe tener al menos 6 caracteres"),
                users)
     ELSE IF user.error THEN Out(404, Error("Usuario no encontrado"), users)
     ELSE IF ~Compare(currentPassword, users[tok.id].password_hash)
       THEN Out(401, Error("Contraseña actual incorrecta"), users)
     ELSE Out(200, [message |-> "Contraseña actualizada exitosamente"],
              [users EXCEPT ![tok.id].password_hash = Hash(newPassword)])

ChangePassword(tok, currentPassword, newPassword) ==
  /\ Serve
  /\ LET r == ChangePasswordResult(tok, currentPassword, newPassword)
     IN /\ resp' = Reply("POST /auth/change-password", tok.id, r.status, r.data)
        /\ users' = r.table
  /\ UNCHANGED <<businesses, catalog, shifts, transactions>>

\* ------------------------------------------------- lifecycle, interleaved
\* toggle-active, delete and restore read the row and then write it: two
\* storage calls, between which other requests are served.
\* PATCH /users/:id/toggle-active up to its update: the middleware, the lookup of the
\* row and the check of its state; the row is remembered as it was read.
ToggleUserFetch(s, tok, id) ==
  /\ Accepts(s)
  /\ LET r == ToggleUserResult(tok, id)
     IN IF r.status # 200
        THEN /\ resp' = Reply("PATCH /users/:id/toggle-active", tok.id, r.status, r.data)
             /\ reqs' = reqs
        ELSE /\ reqs' = [reqs EXCEPT ![s] =
                  [op |-> "ToggleUser", tok |-> tok, id |-> id, row |-> users[id]]]
             /\ resp' = resp
  /\ Arrives
  /\ UNCHANGED <<tenancy, catalog, shifts, transactions, workers>>

\* The update of PATCH /users/:id/toggle-active and its 200 response.
ToggleUserUpdate(s) ==
  /\ reqs[s].op = "ToggleUser"
  /\ LET r == reqs[s]
     IN /\ users' = [users EXCEPT ![r.id].active = ~r.row.active]
        /\ resp' = Reply("PATCH /users/:id/toggle-active", r.tok.id, 200, [id |-> r.id])
  /\ reqs' = [reqs EXCEPT ![s] = Idle]
  /\ UNCHANGED <<businesses, catalog, shifts, transactions, workers, quota>>

\* DELETE /users/:id up to its update: the middleware, the lookup of the
\* row and the check of its state; the row is remembered as it was read.
DeleteUserFetch(s, tok, id) ==
  /\ Accepts(s)
  /\ LET r == DeleteUserResult(tok, id)
     IN IF r.status # 200
        THEN /\ resp' = Reply("DELETE /users/:id", tok.id, r.status, r.data)
             /\ reqs' = reqs
        ELSE /\ reqs' = [reqs EXCEPT ![s] =
                  [op |-> "DeleteUser", tok |-> tok, id |-> id, row |-> users[id]]]
             /\ resp' = resp
  /\ Arrives
  /\ UNCHANGED <<tenancy, catalog, shifts, transactions, workers>>

\* The update of DELETE /users/:id and its 200 response.
DeleteUserUpdate(s) ==
  /\ reqs[s].op = "DeleteUser"
  /\ LET r == reqs[s]
     IN /\ users' = [users EXCEPT ![r.id].deleted_at = TRUE, ![r.id].active = FALSE]
        /\ resp' = Reply("DELETE /users/:id", r.tok.id, 200, [id |-> r.id])
  /\ reqs' = [reqs EXCEPT ![s] = Idle]
  /\ UNCHANGED <<businesses, catalog, shifts, transactions, workers, quota>>

\* PATCH /users/:id/restore up to its update: the middleware, the lookup of the
\* row and the check of its state; the row is remembered as it was read.
RestoreUserFetch(s, tok, id) ==
  /\ Accepts(s)
  /\ LET r == RestoreUserResult(tok, id)
     IN IF r.status # 200
        THEN /\ resp' = Reply("PATCH /users/:id/restore", tok.id, r.status, r.data)
             /\ reqs' = reqs
        ELSE /\ reqs' = [reqs EXCEPT ![s] =
                  [op |-> "RestoreUser", tok |-> tok, id |-> id, row |-> users[id]]]
             /\ resp' = resp
  /\ Arrives
  /\ UNCHANGED <<tenancy, catalog, shifts, transactions, workers>>

\* The update of PATCH /users/:id/restore and its 200 response.
RestoreUserUpdate(s) ==
  /\ reqs[s].op = "RestoreUser"
  /\ LET r == reqs[s]
     IN /\ users' = [users EXCEPT ![r.id].deleted_at = FALSE, ![r.id].active = TRUE]
        /\ resp' = Reply("PATCH /users/:id/restore", r.tok.id, 200, [id |-> r.id])
  /\ reqs' = [reqs EXCEPT ![s] = Idle]
  /\ UNCHANGED <<businesses, catalog, shifts, transactions, workers, quota>>

\* PATCH /products/:id/toggle-active up to its update: the middleware, the lookup of the
\* row and the check of its state; the row is remembered as it was read.
ToggleProductFetch(s, tok, id) ==
  /\ Accepts(s)
  /\ LET r == ToggleProductResult(tok, id)
     IN IF r.status # 200
        THEN /\ resp' = Reply("PATCH /products/:id/toggle-active", tok.id, r.status, r.data)
             /\ reqs' = reqs
        ELSE /\ reqs' = [reqs EXCEPT ![s] =
                  [op |-> "ToggleProduct", tok |-> tok, id |-> id, row |-> products[id]]]
             /\ resp' = resp
  /\ Arrives
  /\ UNCHANGED <<tenancy, catalog, shifts, transactions, workers>>

\* The update of PATCH /products/:id/toggle-active and its 200 response.
ToggleProductUpdate(s) ==
  /\ reqs[s].op = "ToggleProduct"
  /\ LET r == reqs[s]
     IN /\ products' = [products EXCEPT ![r.id].active = ~r.row.active]
        /\ resp' = Reply("PATCH /products/:id/toggle-active", r.tok.id, 200, [id |-> r.id])
  /\ reqs' = [reqs EXCEPT ![s] = Idle]
  /\ UNCHANGED <<tenancy, categories, service_types, tickets, shifts, transactions, workers, quota>>

\* DELETE /products/:id up to its update: the middleware, the lookup of the
\* row and the check of its state; the row is remembered as it was read.
DeleteProductFetch(s, tok, id) ==
  /\ Accepts(s)
  /\ LET r == DeleteProductResult(tok, id)
     IN IF r.status # 200
        THEN /\ resp' = Reply("DELETE /products/:id", tok.id, r.status, r.data)
             /\ reqs' = reqs
        ELSE /\ reqs' = [reqs EXCEPT ![s] =
                  [op |-> "DeleteProduct", tok |-> tok, id |-> id, row |-> products[id]]]
             /\ resp' = resp
  /\ Arrives
  /\ UNCHANGED <<tenancy, catalog, shifts, transactions, workers>>

\* The update of DELETE /products/:id and its 200 response.
DeleteProductUpdate(s) ==
  /\ reqs[s].op = "DeleteProduct"
  /\ LET r == reqs[s]
     IN /\ products' = [products EXCEPT ![r.id].deleted_at = TRUE, ![r.id].active = FALSE]
        /\ resp' = Reply("DELETE /products/:id", r.tok.id, 200, [id |-> r.id])
  /\ reqs' = [reqs EXCEPT ![s] = Idle]
  /\ UNCHANGED <<tenancy, categories, service_types, tickets, shifts, transactions, workers, quota>>

\* PATCH /products/:id/restore up to its update: the middleware, the lookup of the
\* row and the check of its state; the row is remembered as it was read.
RestoreProductFetch(s, tok, id) ==
  /\ Accepts(s)
  /\ LET r == RestoreProductResult(tok, id)
     IN IF r.status # 200
        THEN /\ resp' = Reply("PATCH /products/:id/restore", tok.id, r.status, r.data)
             /\ reqs' = reqs
        ELSE /\ reqs' = [reqs EXCEPT ![s] =
                  [op |-> "RestoreProduct", tok |-> tok, id |-> id, row |-> products[id]]]
             /\ resp' = resp
  /\ Arrives
  /\ UNCHANGED <<tenancy, catalog, shifts, transactions, workers>>

\* The update of PATCH /products/:id/restore and its 200 response.
RestoreProductUpdate(s) ==
  /\ reqs[s].op = "RestoreProduct"
  /\ LET r == reqs[s]
     IN /\ products' = [products EXCEPT ![r.id].deleted_at = FALSE, ![r.id].active = TRUE]
        /\ resp' = Reply("PATCH /products/:id/restore", r.tok.id, 200, [id |-> r.id])
  /\ reqs' = [reqs EXCEPT ![s] = Idle]
  /\ UNCHANGED <<tenancy, categories, service_types, tickets, shifts, transactions, workers, quota>>

\* ---------------------------------------------------------- specifications
InitStore ==
  /\ businesses = SeedBusinesses
  /\ users = SeedUsers
  /\ categories = SeedCategories
  /\ service_types = SeedServiceTypes
  /\ products = SeedProducts
  /\ tickets = <<>>
  /\ shifts = <<>>
  /\ transactions = <<>>
  /\ reqs = [s \in 1..MaxReqs |-> Idle]
  /\ resp = Reply("none", 0, 0, NoData)

Unlimited == [limited |-> FALSE, left |-> 0]
Limited(n) == [limited |-> TRUE, left |-> n]

\* The shift ledger served concurrently.
InitShift == InitStore /\ workers = MaxReqs /\ quota = Unlimited

\* The shift ledger served one request at a time.
InitShiftSeq == InitStore /\ workers = 1 /\ quota = Unlimited

StaffTokens == {tok \in Tokens : tok.role # "super_admin"}

\* Requests served concurrently: starts, closes and sales interleave between
\* their storage calls.
NextShift ==
  \E s \in 1..MaxReqs :
    \/ \E tok \in StaffTokens : StartShiftCheck(s, tok, 1, JNum(1))
    \/ StartShiftInsert(s)
    \/ \E tok \in StaffTokens, id \in ShiftIds, c \in {Blank, JNum(2)} :
         CloseShiftCheck(s, tok, id, c)
    \/ CloseShiftSum(s)
    \/ CloseShiftUpdate(s)
    \/ \E tok \in StaffTokens, id \in ShiftIds :
         PostTransactionCheck(s, tok, SaleBody(id, 1, 2, "cash", ""))
    \/ PostTransactionInsert(s)

\* Shift start and close, one request at a time.
NextShiftSeq ==
  \E s \in 1..MaxReqs :
    \/ \E tok \in Tokens, u \in {1, 2}, c \in InitialCashInputs :
         StartShiftCheck(s, tok, u, c)
    \/ StartShiftInsert(s)
    \/ \E tok \in Tokens, id \in ShiftIds, c \in {Undefined, JNum(2)} :
         CloseShiftCheck(s, tok, id, c)
    \/ CloseShiftSum(s)
    \/ CloseShiftUpdate(s)

\* Sales and reconciliation, one request at a time.
NextLedgerSeq ==
  \E s \in 1..MaxReqs :
    \/ \E tok \in StaffTokens : StartShiftCheck(s, tok, 1, JNum(1))
    \/ StartShiftInsert(s)
    \/ \E tok \in Tokens, id \in ShiftIds, c \in FinalCashInputs :
         CloseShiftCheck(s, tok, id, c)
    \/ CloseShiftSum(s)
    \/ CloseShiftUpdate(s)
    \/ \E tok \in Tokens, body \in SaleBodies : PostTransactionCheck(s, tok, body)
    \/ PostTransactionInsert(s)

\* Two tenants at work: tenant 2 has an open shift, a sale on it and a
\* ticket; MaxCalls more requests arrive, served one at a time.
MaxCalls == 2
InitTenant ==
  /\ businesses = SeedBusinesses
  /\ users = SeedUsers
  /\ categories = SeedCategories
  /\ service_types = SeedServiceTypes
  /\ products = SeedProducts
  /\ tickets = <<TicketRow(2, 2)>>
  /\ shifts = <<ShiftRow(2, Col(1), 2)>>
  /\ transactions = <<SaleRow(SaleOf(1, 2), 2, 2)>>
  /\ reqs = [s \in 1..MaxReqs |-> Idle]
  /\ resp = Reply("none", 0, 0, NoData)
  /\ workers = 1
  /\ quota = Limited(MaxCalls)

\* Every route behind the tenant middleware, called by the tenants' staff.
NextTenant ==
  \/ \E tok \in StaffTokens, d \in ShowDeletedInputs : GetUsers(tok, d)
  \/ \E tok \in StaffTokens, id \in UserIdInputs : GetUser(tok, id)
  \/ \E tok \in StaffTokens, e \in EmailInputs, r \in RoleInputs :
       PostUser(tok, e, r)
  \/ \E tok \in StaffTokens, id \in UserIdInputs, e \in EmailInputs,
        r \in RoleInputs : PutUser(tok, id, e, r)
  \/ \E tok \in StaffTokens, id \in UserIdInputs : ToggleUser(tok, id)
  \/ \E tok \in StaffTokens, id \in UserIdInputs : DeleteUser(tok, id)
  \/ \E tok \in StaffTokens, id \in UserIdInputs : RestoreUser(tok, id)
  \/ \E tok \in StaffTokens, d \in ShowDeletedInputs : GetProducts(tok, d)
  \/ \E tok \in StaffTokens, id \in ProductIds : GetProduct(tok, id)
  \/ \E tok \in StaffTokens, n \in NameInputs, c \in CategoryIds :
       PostProduct(tok, n, c)
  \/ \E tok \in StaffTokens, id \in ProductIds, n \in NameInputs,
        c \in CategoryIds : PutProduct(tok, id, n, c)
  \/ \E tok \in StaffTokens, id \in ProductIds : ToggleProduct(tok, id)
  \/ \E tok \in StaffTokens, id \in ProductIds : DeleteProduct(tok, id)
  \/ \E tok \in StaffTokens, id \in ProductIds : RestoreProduct(tok, id)
  \/ \E tok \in StaffTokens : GetCategories(tok)
  \/ \E tok \in StaffTokens, id \in CategoryIds : GetCategory(tok, id)
  \/ \E tok \in StaffTokens, n \in NameInputs : PostCategory(tok, n)
  \/ \E tok \in StaffTokens, id \in CategoryIds, n \in NameInputs :
       PutCategory(tok, id, n)
  \/ \E tok \in StaffTokens, id \in CategoryIds : ToggleCategory(tok, id)
  \/ \E tok \in StaffTokens, id \in CategoryIds : DeleteCategory(tok, id)
  \/ \E tok \in StaffTokens : GetServiceTypes(tok)
  \/ \E tok \in StaffTokens, id \in ServiceTypeIds : GetServiceType(tok, id)
  \/ \E tok \in StaffTokens, n \in NameInputs : PostServiceType(tok, n)
  \/ \E tok \in StaffTokens, id \in ServiceTypeIds, n \in NameInputs :
       PutServiceType(tok, id, n)
  \/ \E tok \in StaffTokens, id \in ServiceTypeIds :
       ToggleServiceType(tok, id)
  \/ \E tok \in StaffTokens, id \in ServiceTypeIds :
       DeleteServiceType(tok, id)
  \/ \E tok \in StaffTokens : PostTicket(tok)
  \/ \E tok \in StaffTokens : GetTickets(tok)
  \/ \E tok \in StaffTokens, id \in TicketIds : GetTicket(tok, id)
  \/ \E tok \in StaffTokens, id \in TicketIds : MarkPrinted(tok, id)
  \/ \E tok \in StaffTokens, id \in TicketIds : MarkSent(tok, id)
  \/ \E tok \in StaffTokens : GetShifts(tok)
  \/ \E tok \in StaffTokens : GetActiveShifts(tok)
  \/ \E tok \in StaffTokens : GetTransactions(tok)
  \/ \E tok \in StaffTokens, id \in ShiftIds : GetShiftTransactions(tok, id)
  \/ \E tok \in StaffTokens, u \in {1, 2} : StartShiftCheck(1, tok, u, JNum(1))
  \/ StartShiftInsert(1)
  \/ \E tok \in StaffTokens, id \in ShiftIds :
       CloseShiftCheck(1, tok, id, JNum(2))
  \/ CloseShiftSum(1)
  \/ CloseShiftUpdate(1)
  \/ \E tok \in StaffTokens, id \in ShiftIds, p \in ProductIds :
       PostTransactionCheck(1, tok, SaleOf(id, p))
  \/ PostTransactionInsert(1)

\* The token payloads issued so far, those of accounts since removed included.
IssuedTokens == {[id |-> i, role |-> users[i].role] : i \in DOMAIN users}

\* The stores the tenant middleware can meet: each tenant active, inactive or
\* removed, and the cashier's account bound to a tenant, unbound (a row older
\* than the tenant column) or removed.
InitCtx ==
  /\ businesses \in
       {<<[BusinessRow("a") EXCEPT !.active = a1, !.gone = g1],
          [BusinessRow("b") EXCEPT !.active = a2, !.gone = g2]>> :
          a1 \in BOOLEAN, g1 \in BOOLEAN, a2 \in BOOLEAN, g2 \in BOOLEAN}
  /\ users \in
       {<<UserRow(1, "admin", "e1"),
          [UserRow(b, "cajero", "e2") EXCEPT !.gone = g],
          UserRow(NoBusiness, "super_admin", "e0")>> :
          b \in {NoBusiness, 1, 2}, g \in BOOLEAN}
  /\ categories = SeedCategories
  /\ service_types = SeedServiceTypes
  /\ products = SeedProducts
  /\ tickets = <<>>
  /\ shifts = <<>>
  /\ transactions = <<>>
  /\ reqs = [s \in 1..MaxReqs |-> Idle]
  /\ resp = Reply("none", 0, 0, NoData)
  /\ workers = 1
  /\ quota = Limited(MaxCalls)

\* Routes behind the tenant middleware, called with any issued token.
NextCtx ==
  \/ \E tok \in IssuedTokens : GetShifts(tok)
  \/ \E tok \in IssuedTokens : GetCategories(tok)
  \/ \E tok \in IssuedTokens : GetServiceTypes(tok)
  \/ \E tok \in IssuedTokens, n \in NameInputs : PostCategory(tok, n)
  \/ \E tok \in IssuedTokens : PostTicket(tok)
  \/ \E tok \in IssuedTokens, id \in UserIdInputs : ToggleUser(tok, id)
  \/ \E tok \in IssuedTokens : StartShiftCheck(1, tok, tok.id, JNum(1))
  \/ StartShiftInsert(1)

\* The operator at work next to the tenants' staff: tenants are provisioned
\* and switched on and off while accounts log in, verify their session,
\* change their password and call routes behind the tenant middleware.
LoginEmailInputs == {"e0", "e1", "e2"}
InitOperator == InitStore /\ workers = 1 /\ quota = Limited(MaxCalls)

NextOperator ==
  \/ \E tok \in Tokens, id \in BusinessIds : ToggleBusiness(tok, id)
  \/ \E tok \in Tokens, slug \in SlugInputs, e \in EmailInputs :
       PostBusiness(tok, slug, e)
  \/ \E e \in LoginEmailInputs, p \in PasswordInputs : Login(e, p)
  \/ \E tok \in Tokens : Verify(tok)
  \/ \E tok \in Tokens, c \in PasswordInputs, n \in NewPasswordInputs :
       ChangePassword(tok, c, n)
  \/ \E tok \in Tokens : GetUsers(tok, "false")
  \/ \E tok \in Tokens, e \in EmailInputs : PostUser(tok, e, "cajero")
  \/ \E tok \in Tokens : GetProducts(tok, "false")
  \/ \E tok \in Tokens, n \in NameInputs, c \in CategoryIds :
       PostProduct(tok, n, c)
  \/ \E tok \in Tokens, n \in NameInputs : PostCategory(tok, n)
  \/ \E tok \in Tokens : PostTicket(tok)
  \/ \E tok \in Tokens : GetShifts(tok)
  \/ \E tok \in Tokens : StartShiftCheck(1, tok, tok.id, JNum(1))
  \/ StartShiftInsert(1)

\* Accounts and catalog items through their life: next to the seeded rows,
\* tenant 1 may hold one more account and one more catalog item, created
\* earlier and since left active, deactivated or soft-deleted.
LifecycleStages ==
  {[active |-> TRUE, deleted_at |-> FALSE],
   [active |-> FALSE, deleted_at |-> FALSE],
   [active |-> FALSE, deleted_at |-> TRUE]}

LifecycleStore ==
  /\ businesses = SeedBusinesses
  /\ users \in
       {SeedUsers} \cup
       {Append(SeedUsers, [UserRow(1, "cajero", "e3") EXCEPT
                             !.active = st.active,
                             !.deleted_at = st.deleted_at]) :
          st \in LifecycleStages}
  /\ categories = SeedCategories
  /\ service_types = SeedServiceTypes
  /\ products \in
       {SeedProducts} \cup
       {Append(SeedProducts, [ProductRow(1, "n3", 1, 0) EXCEPT
                                !.active = st.active,
                                !.deleted_at = st.deleted_at]) :
          st \in LifecycleStages}
  /\ tickets = <<>>
  /\ shifts = <<>>
  /\ transactions = <<>>
  /\ reqs = [s \in 1..MaxReqs |-> Idle]
  /\ resp = Reply("none", 0, 0, NoData)

InitLifecycle == LifecycleStore /\ workers = 1 /\ quota = Limited(MaxCalls)

\* The same store with MaxCalls requests served concurrently.
InitRace == LifecycleStore /\ workers = MaxReqs /\ quota = Limited(MaxCalls)

\* toggle-active, delete and restore requests on accounts and catalog items,
\* interleaving between their storage calls.
NextRace ==
  \E s \in 1..MaxReqs :
    \/ \E tok \in Tokens, id \in UserIdInputs : ToggleUserFetch(s, tok, id)
    \/ ToggleUserUpdate(s)
    \/ \E tok \in Tokens, id \in UserIdInputs : DeleteUserFetch(s, tok, id)
    \/ DeleteUserUpdate(s)
    \/ \E tok \in Tokens, id \in UserIdInputs : RestoreUserFetch(s, tok, id)
    \/ RestoreUserUpdate(s)
    \/ \E tok \in Tokens, id \in ProductIds : ToggleProductFetch(s, tok, id)
    \/ ToggleProductUpdate(s)
    \/ \E tok \in Tokens, id \in ProductIds : DeleteProductFetch(s, tok, id)
    \/ DeleteProductUpdate(s)
    \/ \E tok \in Tokens, id \in ProductIds : RestoreProductFetch(s, tok, id)
    \/ RestoreProductUpdate(s)

\* The account and catalog routes, called one at a time by staff and operator.
NextLifecycle ==
  \/ \E tok \in Tokens, d \in ShowDeletedInputs : GetUsers(tok, d)
  \/ \E tok \in Tokens, e \in EmailInputs, r \in RoleInputs :
       PostUser(tok, e, r)
  \/ \E tok \in Tokens, id \in UserIdInputs, e \in EmailInputs,
        r \in RoleInputs : PutUser(tok, id, e, r)
  \/ \E tok \in Tokens, id \in UserIdInputs : ToggleUser(tok, id)
  \/ \E tok \in Tokens, id \in UserIdInputs : DeleteUser(tok, id)
  \/ \E tok \in Tokens, id \in UserIdInputs : RestoreUser(tok, id)
  \/ \E tok \in Tokens, d \in ShowDeletedInputs : GetProducts(tok, d)
  \/ \E tok \in Tokens, n \in NameInputs, c \in CategoryIds :
       PostProduct(tok, n, c)
  \/ \E tok \in Tokens, id \in ProductIds, n \in NameInputs,
        c \in CategoryIds : PutProduct(tok, id, n, c)
  \/ \E tok \in Tokens, id \in ProductIds : ToggleProduct(tok, id)
  \/ \E tok \in Tokens, id \in ProductIds : DeleteProduct(tok, id)
  \/ \E tok \in Tokens, id \in ProductIds : RestoreProduct(tok, id)
  \/ \E tok \in Tokens, id \in CategoryIds : DeleteCategory(tok, id)

SpecShift == InitShift /\ [][NextShift]_vars
SpecLifecycle == InitLifecycle /\ [][NextLifecycle]_vars
SpecRace == InitRace /\ [][NextRace]_vars
SpecOperator == InitOperator /\ [][NextOperator]_vars
SpecCtx == InitCtx /\ [][NextCtx]_vars
SpecTenant == InitTenant /\ [][NextTenant]_vars
SpecShiftSeq == InitShiftSeq /\ [][NextShiftSeq]_vars
SpecLedgerSeq == InitShiftSeq /\ [][NextLedgerSeq]_vars

\* ------------------------------------------------------ shift ledger claims
\* The shifts on record for an (account, tenant) pair with the given status.
ShiftsOf(u, b, status) ==
  {i \in DOMAIN shifts : /\ ~shifts[i].gone
                         /\ shifts[i].user_id = u
                         /\ shifts[i].business_id = b
                         /\ shifts[i].status = status}

\* C1: under any interleaving of concurrent POST /shifts/start requests, an
\* (account, tenant) pair has at most one shift with status open in every
\* reachable state.
C1_AtMostOneOpenShift ==
  \A u \in UserIds, b \in DOMAIN businesses :
    Cardinality(ShiftsOf(u, b, "open")) <= 1

\* C2: served one at a time, a valid shift-start for a pair that has an open
\* shift is answered 400 "El usuario ya tiene un turno abierto" and creates no
\* row; for a pair without an open shift (none yet, or all closed) it is
\* admitted, and its insert answers 201 and leaves the pair with exactly one
\* open shift, the new row.
C2_StartRefusedWhileOpen ==
  [][/\ \A s \in 1..MaxReqs, tok \in Tokens, u \in UserIds,
          c \in InitialCashInputs :
          LET ctx == LoadBusinessContext(tok)
          IN (/\ StartShiftCheck(s, tok, u, c)
              /\ ctx.status = 200
              /\ ctx.businessId # NoBusiness
              /\ ~LtZero(c))
             => IF ShiftsOf(u, ctx.businessId, "open") # {}
                THEN /\ resp' = Reply("start", tok.id, 400,
                                  Error("El usuario ya tiene un turno abierto"))
                     /\ shifts' = shifts
                     /\ reqs' = reqs
                ELSE /\ reqs'[s].op = "start"
                     /\ reqs'[s].user_id = u
                     /\ reqs'[s].businessId = ctx.businessId
     /\ \A s \in 1..MaxReqs :
          StartShiftInsert(s)
          => /\ resp'.status = 201
             /\ Len(shifts') = Len(shifts) + 1
             /\ \A i \in DOMAIN shifts : shifts'[i] = shifts[i]
             /\ LET new == shifts'[Len(shifts')]
                IN /\ new.status = "open"
                   /\ new.user_id = reqs[s].user_id
                   /\ new.business_id = reqs[s].businessId
                   /\ ShiftsOf(new.user_id, new.business_id, "open") = {}]_vars

\* C2's case: a pair whose first shift was closed and whose second shift is
\* open has just been refused a third.
C2_Witness ==
  /\ resp.op = "start"
  /\ resp.status = 400
  /\ resp.data = Error("El usuario ya tiene un turno abierto")
  /\ \E u \in UserIds, b \in DOMAIN businesses :
       /\ ShiftsOf(u, b, "closed") # {}
       /\ ShiftsOf(u, b, "open") # {}

\* C3: a shift row whose status is closed is never changed again, by a later
\* close or by one running concurrently.
C3_ClosedIsTerminal ==
  [][\A i \in DOMAIN shifts :
       shifts[i].status = "closed" => shifts'[i] = shifts[i]]_vars

\* C4: every closed shift has its closing cash and its cash variance set.
C4_ClosedHasCashAndVariance ==
  \A i \in DOMAIN shifts :
    shifts[i].status = "closed"
    => ~shifts[i].final_cash.null /\ ~shifts[i].cash_difference.null

\* The sum of total over the first n sales on record that are attached to
\* the shift, paid in cash and completed.
RECURSIVE CashSalesUpTo(_, _)
CashSalesUpTo(id, n) ==
  IF n = 0 THEN 0
  ELSE CashSalesUpTo(id, n - 1)
       + (IF /\ transactions[n].shift_id = id
             /\ transactions[n].payment_method = "cash"
             /\ transactions[n].status = "completed"
          THEN transactions[n].total ELSE 0)

C6_SaleOnlyIntoOpenShift ==
  [][\A n \in (DOMAIN transactions') \ DOMAIN transactions :
       LET row == transactions'[n]
       IN /\ row.shift_id \in DOMAIN shifts
          /\ shifts[row.shift_id].status = "open"
          /\ shifts[row.shift_id].business_id = row.business_id]_vars

\* ------------------------------------------------------ tenant scope claims
\* The tenant an account is bound to, and whether the account is staff of a
\* tenant (a non-operator principal).
TenantOfAccount(by) == users[by].business_id
IsStaff(by) == by \in DOMAIN users /\ users[by].role # "super_admin"

\* The tenant reference of a row a response shows.
TenantOfRef(ref) ==
  CASE ref.table = "businesses" -> ref.id
    [] ref.table = "users" -> users[ref.id].business_id
    [] ref.table = "categories" -> categories[ref.id].business_id
    [] ref.table = "service_types" -> service_types[ref.id].business_id
    [] ref.table = "products" -> products[ref.id].business_id
    [] ref.table = "tickets" -> tickets[ref.id].business_id
    [] ref.table = "shifts" -> shifts[ref.id].business_id
    [] ref.table = "transactions" -> transactions[ref.id].business_id

\* C7: every row in the response to a listing or read request of a
\* non-operator principal, the joined rows included, carries the tenant the
\* principal is bound to.
C7_ReadsShowOwnTenantOnly ==
  (/\ resp.status = 200
   /\ IsStaff(resp.by)
   /\ "rows" \in DOMAIN resp.data)
  => \A ref \in resp.data.rows : TenantOfRef(ref) = TenantOfAccount(resp.by)

\* Rows of other tenants than A are the same in the old and the new table,
\* and every row the new table adds carries tenant A.
OthersKept(old, new, A) ==
  /\ \A i \in DOMAIN old :
       old[i].business_id # A => i \in DOMAIN new /\ new[i] = old[i]
  /\ \A i \in (DOMAIN new) \ DOMAIN old : new[i].business_id = A

\* C8: a step that answers a non-operator principal bound to tenant A leaves
\* every row of every other tenant as it was, and every row it creates
\* carries tenant A.
C8_NoCrossTenantWrite ==
  [][IsStaff(resp'.by)
     => LET A == TenantOfAccount(resp'.by)
        IN /\ businesses' = businesses
           /\ OthersKept(users, users', A)
           /\ OthersKept(categories, categories', A)
           /\ OthersKept(service_types, service_types', A)
           /\ OthersKept(products, products', A)
           /\ OthersKept(tickets, tickets', A)
           /\ OthersKept(shifts, shifts', A)
           /\ OthersKept(transactions, transactions', A)]_vars

\* C8's case: while tenant 2 holds rows in every table, the admin of tenant 1
\* has just soft-deleted an account, which is an account of tenant 1.
C8_Witness ==
  /\ resp.op = "DELETE /users/:id"
  /\ resp.by = 1
  /\ resp.status = 200
  /\ users[resp.data.id].deleted_at
  /\ users[resp.data.id].business_id = 1
  /\ \E i \in DOMAIN users : users[i].business_id = 2 /\ ~users[i].deleted_at
  /\ \E i \in DOMAIN products : products[i].business_id = 2
  /\ \E i \in DOMAIN shifts : shifts[i].business_id = 2

\* The id names a row that exists, in another tenant than A only.
Foreign(table, id, A) ==
  id \in Live(table) /\ table[id].business_id # A

\* The step is a by-id request of the principal on the table's row id.
ByIdUser(tok, id) ==
  \/ GetUser(tok, id)
  \/ \E e \in EmailInputs : PutUser(tok, id, e, "cajero")
  \/ ToggleUser(tok, id)
  \/ DeleteUser(tok, id)
  \/ RestoreUser(tok, id)
ByIdProduct(tok, id) ==
  \/ GetProduct(tok, id)
  \/ \E n \in NameInputs, c \in CategoryIds : PutProduct(tok, id, n, c)
  \/ ToggleProduct(tok, id)
  \/ DeleteProduct(tok, id)
  \/ RestoreProduct(tok, id)
ByIdCategory(tok, id) ==
  \/ GetCategory(tok, id)
  \/ \E n \in NameInputs : PutCategory(tok, id, n)
  \/ ToggleCategory(tok, id)
  \/ DeleteCategory(tok, id)
ByIdServiceType(tok, id) ==
  \/ GetServiceType(tok, id)
  \/ \E n \in NameInputs : PutServiceType(tok, id, n)
  \/ ToggleServiceType(tok, id)
  \/ DeleteServiceType(tok, id)
ByIdShift(tok, id) == CloseShiftCheck(1, tok, id, JNum(2))

\* C9: a valid by-id request of a non-operator principal that names a row of
\* another tenant (accounts, catalog items, categories, service types, shift
\* close) is answered 404 and changes no table.
C9_ForeignIdIsNotFound ==
  [][\A tok \in StaffTokens :
       LET A == TenantOfAccount(tok.id)
           foreign ==
             \/ \E id \in UserIdInputs : Foreign(users, id, A) /\ ByIdUser(tok, id)
             \/ \E id \in ProductIds :
                  Foreign(products, id, A) /\ ByIdProduct(tok, id)
             \/ \E id \in CategoryIds :
                  Foreign(categories, id, A) /\ ByIdCategory(tok, id)
             \/ \E id \in ServiceTypeIds :
                  Foreign(service_types, id, A) /\ ByIdServiceType(tok, id)
             \/ \E id \in ShiftIds : Foreign(shifts, id, A) /\ ByIdShift(tok, id)
       IN foreign => /\ resp'.status = 404
                     /\ UNCHANGED <<tenancy, catalog, shifts, transactions>>]_vars

\* -------------------------------------------------- tenant resolution claim
\* What the account row and the tenant row say about a token's tenant.
Binding(tok) ==
  IF tok.id \in Live(users) THEN users[tok.id].business_id ELSE NoBusiness
TenantExists(b) == b \in DOMAIN businesses /\ ~businesses[b].gone
TenantActive(b) == TenantExists(b) /\ businesses[b].active

\* The middleware's decision for every issued token: an operator is admitted
\* unscoped without a storage read; anyone else is admitted, scoped to the
\* bound tenant, exactly when the binding is set and the tenant exists and is
\* active, and is otherwise answered 403 with no scope.
ResolvedRight ==
  \A tok \in IssuedTokens :
    LET ctx == LoadBusinessContext(tok)
        t == Binding(tok)
    IN IF tok.role = "super_admin"
       THEN /\ ctx.status = 200
            /\ ctx.isSuperAdmin
            /\ ctx.businessId = NoBusiness
            /\ ctx.lookups = 0
       ELSE IF t # NoBusiness /\ TenantActive(t)
       THEN ctx.status = 200 /\ ~ctx.isSuperAdmin /\ ctx.businessId = t
       ELSE /\ ctx.status = 403
            /\ ctx.businessId = NoBusiness
            /\ ~ctx.isSuperAdmin
            /\ ctx.error =
                 (IF t = NoBusiness
                  THEN "Usuario no asociado a ninguna empresa"
                  ELSE IF ~TenantExists(t) THEN "Empresa no encontrada"
                  ELSE "Empresa desactivada. Contacte a soporte.")

\* A response to a token the middleware denies is the middleware's 403, and
\* the step that sends it changes no table and admits no request.
DeniedRunsNoHandler ==
  \A tok \in IssuedTokens :
    LET ctx == LoadBusinessContext(tok)
    IN (ctx.status # 200 /\ resp'.by = tok.id /\ resp' # resp)
       => /\ resp'.status = 403
          /\ resp'.data = Error(ctx.error)
          /\ UNCHANGED <<tenancy, catalog, shifts, transactions, reqs>>

\* C10: a non-operator request reaches a handler, scoped to tenant t, only
\* when its account is bound to t and t exists and is active; with no
\* binding, a missing tenant or an inactive tenant it ends with 403, no
\* handler runs and no scope is set; an operator is unscoped and no tenant
\* lookup is made.
C10_TenantResolution == []ResolvedRight /\ [][DeniedRunsNoHandler]_vars

\* C10's case: the cashier, bound to an inactive tenant, has just been
\* answered 403 by the middleware.
C10_Witness ==
  /\ resp.by = 2
  /\ resp.status = 403
  /\ resp.data = Error("Empresa desactivada. Contacte a soporte.")
  /\ Binding([id |-> 2, role |-> "cajero"]) # NoBusiness
  /\ TenantExists(Binding([id |-> 2, role |-> "cajero"]))
  /\ ~TenantActive(Binding([id |-> 2, role |-> "cajero"]))

\* ---------------------------------------------------- inactive tenant claim
\* The account is a non-operator principal of a tenant that is switched off.
OfInactiveTenant(u) ==
  /\ IsStaff(u)
  /\ u \in Live(users)
  /\ TenantExists(TenantOfAccount(u))
  /\ ~TenantActive(TenantOfAccount(u))

\* C11: while a tenant is inactive, every step that answers a non-operator
\* principal of that tenant, on whatever route (business data, login, session
\* verify, change-password), answers with a rejection and changes no table.
C11_InactiveTenantRejectsAll ==
  [][OfInactiveTenant(resp'.by)
     => /\ resp'.status >= 400
        /\ UNCHANGED <<tenancy, catalog, shifts, transactions>>]_vars

\* --------------------------------------------------------- uniqueness claims
\* The non-deleted accounts of a tenant with an email, and the non-deleted
\* catalog items of a tenant with a name.
AccountsWith(b, email) ==
  {i \in Live(users) : /\ users[i].business_id = b
                       /\ users[i].email = email
                       /\ ~users[i].deleted_at}
ItemsWith(b, name) ==
  {i \in Live(products) : /\ products[i].business_id = b
                          /\ products[i].name = name
                          /\ ~products[i].deleted_at}

\* C12: whatever create, update, soft-delete and restore requests have been
\* served, every tenant holds at most one non-deleted account per email and
\* at most one non-deleted catalog item per name.
C12_OnePerKey ==
  \A b \in Live(businesses) :
    /\ \A i \in Live(users) : Cardinality(AccountsWith(b, users[i].email)) <= 1
    /\ \A i \in Live(products) : Cardinality(ItemsWith(b, products[i].name)) <= 1

\* The accounts and the catalog items of a tenant that carry a key, deleted
\* or not.
AccountsKeyed(b, email) ==
  {i \in Live(users) : users[i].business_id = b /\ users[i].email = email}
ItemsKeyed(b, name) ==
  {i \in Live(products) : products[i].business_id = b /\ products[i].name = name}

\* The Conflict answers of the create routes.
ConflictAnswers ==
  {Error("El email ya está registrado en esta empresa"),
   Error("El email ya está registrado"),
   Error("Ya existe un producto con ese nombre en tu empresa"),
   Error("Ya existe un producto con ese nombre")}

\* C13: an otherwise valid create request whose key a non-deleted entity of
\* the same tenant already carries is answered Conflict and adds no row; a
\* create request whose key no entity of the target tenant carries succeeds,
\* whoever carries the key in another tenant - for accounts, catalog items
\* and the owner account of a newly provisioned tenant.
C13_ConflictWithinTenantOnly ==
  [][/\ \A tok \in Tokens, e \in EmailInputs :
          LET ctx == LoadBusinessContext(tok)
              b == ctx.businessId
          IN (PostUser(tok, e, "cajero") /\ ctx.status = 200 /\ b # NoBusiness)
             => /\ AccountsWith(b, e) # {}
                   => /\ resp'.status = 400
                      /\ resp'.data \in ConflictAnswers
                      /\ users' = users
                /\ AccountsKeyed(b, e) = {}
                   => /\ resp'.status = 201
                      /\ users' = Append(users, UserRow(b, "cajero", e))
     /\ \A tok \in Tokens, n \in NameInputs, c \in CategoryIds :
          LET ctx == LoadBusinessContext(tok)
              b == ctx.businessId
          IN (/\ PostProduct(tok, n, c)
              /\ ctx.status = 200
              /\ b # NoBusiness
              /\ ~ActiveCategory(c, b).error)
             => /\ ItemsWith(b, n) # {}
                   => /\ resp'.status = 400
                      /\ resp'.data \in ConflictAnswers
                      /\ products' = products
                /\ ItemsKeyed(b, n) = {}
                   => /\ resp'.status = 201
                      /\ products' = Append(products, ProductRow(b, n, c, 0))
     /\ \A tok \in Tokens, slug \in SlugInputs, e \in EmailInputs :
          (/\ PostBusiness(tok, slug, e)
           /\ LoadBusinessContext(tok).isSuperAdmin
           /\ \A t \in Live(businesses) : businesses[t].slug # slug)
          => /\ resp'.status = 201
             /\ users' = Append(users, UserRow(Len(businesses) + 1, "admin", e))
    ]_vars

\* The ConflictWithDeleted answers: the key is held by a soft-deleted entity.
ConflictWithDeletedAnswers ==
  {Error("El email ya está registrado (usuario eliminado). Puede restaurarlo en lugar de crear uno nuevo."),
   Error("Ya existe un producto con ese nombre (eliminado). Puede restaurarlo en lugar de crear uno nuevo.")}

\* What C14 asks of a create or rename step whose candidate key is carried
\* by the rows `live` (non-deleted) and `keyed` (deleted or not) of the tenant.
KeyRefused(live, keyed, old, new) ==
  /\ live # {} => /\ resp'.status = 400
                  /\ resp'.data \in ConflictAnswers
                  /\ new = old
  /\ (live = {} /\ keyed # {}) => /\ resp'.status = 400
                                  /\ resp'.data \in ConflictWithDeletedAnswers
                                  /\ new = old

\* C14: on create and on rename of an account or a catalog item, a candidate
\* key that a non-deleted row of the same tenant carries is answered Conflict,
\* one that only a soft-deleted row of the same tenant carries is answered
\* ConflictWithDeleted, and in both cases no table changes.
C14_ConflictOrConflictWithDeleted ==
  [][/\ \A tok \in Tokens, e \in EmailInputs :
          LET b == LoadBusinessContext(tok).businessId
          IN (/\ PostUser(tok, e, "cajero")
              /\ LoadBusinessContext(tok).status = 200
              /\ b # NoBusiness)
             => KeyRefused(AccountsWith(b, e), AccountsKeyed(b, e), users, users')
     /\ \A tok \in Tokens, id \in UserIdInputs, e \in EmailInputs :
          (/\ PutUser(tok, id, e, "cajero")
           /\ LoadBusinessContext(tok).status = 200
           /\ ~ScopedById(LoadBusinessContext(tok), users, id).error
           /\ ~users[id].deleted_at
           /\ e # users[id].email)
          => KeyRefused(AccountsWith(users[id].business_id, e),
                        AccountsKeyed(users[id].business_id, e), users, users')
     /\ \A tok \in Tokens, n \in NameInputs, c \in CategoryIds :
          LET b == LoadBusinessContext(tok).businessId
          IN (/\ PostProduct(tok, n, c)
              /\ LoadBusinessContext(tok).status = 200
              /\ b # NoBusiness
              /\ ~ActiveCategory(c, b).error)
             => KeyRefused(ItemsWith(b, n), ItemsKeyed(b, n), products, products')
     /\ \A tok \in Tokens, id \in ProductIds, n \in NameInputs,
           c \in CategoryIds :
          (/\ PutProduct(tok, id, n, c)
           /\ LoadBusinessContext(tok).status = 200
           /\ ~ScopedById(LoadBusinessContext(tok), products, id).error
           /\ ~products[id].deleted_at
           /\ ~ActiveCategory(c, products[id].business_id).error
           /\ n # products[id].name)
          => KeyRefused(ItemsWith(products[id].business_id, n),
                        ItemsKeyed(products[id].business_id, n),
                        products, products')
    ]_vars

\* ---------------------------------------------------------- lifecycle claims
\* C15: in every reachable state, an account or catalog item that carries a
\* soft-delete timestamp has its active flag false.
C15_DeletedIsInactive ==
  /\ \A i \in Live(users) : users[i].deleted_at => ~users[i].active
  /\ \A i \in Live(products) : products[i].deleted_at => ~products[i].active

\* The named reasons of a refused lifecycle transition.
AlreadyDeleted ==
  {Error("El usuario ya está eliminado"), Error("El producto ya está eliminado")}
NotDeleted ==
  {Error("El usuario no está eliminado"), Error("El producto no está eliminado")}
EntityDeleted ==
  {Error("No se puede modificar un usuario eliminado. Debe restaurarlo primero."),
   Error("No se puede modificar un producto eliminado. Debe restaurarlo primero.")}

\* The step answers the principal on the route.
Answers(op, tok) == resp'.op = op /\ resp'.by = tok.id

\* The request reaches the row: the middleware admits it and the row is in
\* the caller's scope.
Reaches(tok, table, id) ==
  /\ LoadBusinessContext(tok).status = 200
  /\ ~ScopedById(LoadBusinessContext(tok), table, id).error

\* The step is answered 400 with one of the reasons and changes no table.
Refused(reasons) ==
  /\ resp'.status = 400
  /\ resp'.data \in reasons
  /\ UNCHANGED <<tenancy, catalog, shifts, transactions>>

\* C16: served one at a time, a delete of a soft-deleted account or catalog
\* item is answered 400 AlreadyDeleted, a restore of one that is not
\* soft-deleted 400 NotDeleted, a toggle-active of a soft-deleted one 400
\* EntityDeleted, and each leaves the entity as it was.
C16_IllegalTransitionRefused ==
  [][/\ \A tok \in Tokens, id \in UserIdInputs :
          /\ (/\ Answers("DELETE /users/:id", tok)
              /\ Reaches(tok, users, id)
              /\ users[id].deleted_at
              /\ DeleteUser(tok, id)) => Refused(AlreadyDeleted)
          /\ (/\ Answers("PATCH /users/:id/restore", tok)
              /\ Reaches(tok, users, id)
              /\ ~users[id].deleted_at
              /\ RestoreUser(tok, id)) => Refused(NotDeleted)
          /\ (/\ Answers("PATCH /users/:id/toggle-active", tok)
              /\ Reaches(tok, users, id)
              /\ users[id].deleted_at
              /\ ToggleUser(tok, id)) => Refused(EntityDeleted)
     /\ \A tok \in Tokens, id \in ProductIds :
          /\ (/\ Answers("DELETE /products/:id", tok)
              /\ Reaches(tok, products, id)
              /\ products[id].deleted_at
              /\ DeleteProduct(tok, id)) => Refused(AlreadyDeleted)
          /\ (/\ Answers("PATCH /products/:id/restore", tok)
              /\ Reaches(tok, products, id)
              /\ ~products[id].deleted_at
              /\ RestoreProduct(tok, id)) => Refused(NotDeleted)
          /\ (/\ Answers("PATCH /products/:id/toggle-active", tok)
              /\ Reaches(tok, products, id)
              /\ products[id].deleted_at
              /\ ToggleProduct(tok, id)) => Refused(EntityDeleted)
    ]_vars

\* C16's case: a toggle-active of a soft-deleted account has just been
\* refused with EntityDeleted, after an earlier request of this run
\* soft-deleted an account or tried to.
C16_Witness ==
  /\ resp.op = "PATCH /users/:id/toggle-active"
  /\ resp.status = 400
  /\ resp.data \in EntityDeleted
  /\ quota.left = 0
  /\ \E i \in Live(users) : users[i].deleted_at /\ ~users[i].active

\* A row as a soft-delete leaves it, and as a restore leaves it.
SoftDeleted(row) == [row EXCEPT !.deleted_at = TRUE, !.active = FALSE]
Restored(row) == [row EXCEPT !.deleted_at = FALSE, !.active = TRUE]

\* One step of a table seen from its rows: a row that becomes soft-deleted
\* changes in the timestamp and the active flag only; a soft-deleted row
\* stays as it is until it is restored, and the restore changes the
\* timestamp and the active flag only.
RoundTripStep(old, new) ==
  \A i \in DOMAIN old :
    /\ i \in DOMAIN new
    /\ (~old[i].deleted_at /\ new[i].deleted_at) => new[i] = SoftDeleted(old[i])
    /\ old[i].deleted_at => new[i] \in {old[i], Restored(old[i])}

\* The step is the successful request `op` on row id of the table.
Succeeds(op, id) ==
  resp'.op = op /\ resp'.status = 200 /\ resp'.data.id = id

\* C17: served one at a time, a successful soft-delete sets the timestamp,
\* clears the active flag and changes nothing else of the entity; no request
\* changes a soft-deleted entity except its restore; and a successful restore
\* unsets the timestamp, sets the active flag and changes nothing else. So a
\* soft-delete followed by a restore gives the entity back active, whatever
\* its active flag was, with key, name, role and tenant as they were.
C17_DeleteRestoreRoundTrip ==
  [][/\ RoundTripStep(users, users')
     /\ RoundTripStep(products, products')
     /\ \A id \in DOMAIN users :
          /\ Succeeds("DELETE /users/:id", id)
               => ~users[id].deleted_at /\ users'[id] = SoftDeleted(users[id])
          /\ Succeeds("PATCH /users/:id/restore", id)
               => users[id].deleted_at /\ users'[id] = Restored(users[id])
     /\ \A id \in DOMAIN products :
          /\ Succeeds("DELETE /products/:id", id)
               => /\ ~products[id].deleted_at
                  /\ products'[id] = SoftDeleted(products[id])
          /\ Succeeds("PATCH /products/:id/restore", id)
               => /\ products[id].deleted_at
                  /\ products'[id] = Restored(products[id])
    ]_vars

\* C17's case: the seeded account 1, soft-deleted by the first request of
\* the run, has just been restored by the second and is active again with
\* its email, role and tenant.
C17_Witness ==
  /\ resp.op = "PATCH /users/:id/restore"
  /\ resp.status = 200
  /\ resp.data.id = 1
  /\ users[1] = UserRow(1, "admin", "e1")

\* ---------------------------------------------------------- dependency claim
\* The active catalog items that reference a category: neither deactivated
\* nor soft-deleted.
ActiveItemsOf(id) ==
  {i \in Live(products) : /\ products[i].category_id = id
                          /\ products[i].active
                          /\ ~products[i].deleted_at}

\* C18: a delete of a category in the caller's scope that n >= 1 active
\* catalog items reference is answered 400 DependencyExists(n) and changes no
\* table; when no active catalog item references it, the referencing items
\* being deactivated or soft-deleted, the delete succeeds and removes it.
C18_CategoryDeleteDependency ==
  [][\A tok \in Tokens, id \in CategoryIds :
       (/\ Answers("DELETE /categories/:id", tok)
        /\ Reaches(tok, categories, id)
        /\ DeleteCategory(tok, id))
       => IF ActiveItemsOf(id) # {}
          THEN /\ resp'.status = 400
               /\ resp'.data.count = Cardinality(ActiveItemsOf(id))
               /\ UNCHANGED <<tenancy, catalog, shifts, transactions>>
          ELSE /\ resp'.status = 200
               /\ id \notin Live(categories')]_vars

\* ------------------------------------------------------------ listing claims
\* C19: the rows of an accounts listing never include an account whose role
\* is operator, whoever calls (an operator included) and whatever filter the
\* request carries.
C19_ListingHidesOperators ==
  [][(resp'.op = "GET /users" /\ resp'.status = 200)
     => \A ref \in resp'.data.rows : users[ref.id].role # "super_admin"]_vars

\* The rows of one table in the listing a step answers with.
Listed(table) == {ref.id : ref \in {r \in resp'.data.rows : r.table = table}}

\* C20: an account or catalog-item listing shows a soft-deleted row only when
\* show_deleted is 'only' or 'true'; with the parameter absent or with any
\* other value it shows no soft-deleted row, and with 'only' it shows no row
\* that is not soft-deleted.
C20_DeletedShownOnlyOnRequest ==
  [][\A tok \in Tokens, d \in ShowDeletedInputs :
       /\ (/\ Answers("GET /users", tok)
           /\ resp'.status = 200
           /\ GetUsers(tok, d))
          => /\ d \notin {"only", "true"}
                => \A i \in Listed("users") : ~users[i].deleted_at
             /\ d = "only" => \A i \in Listed("users") : users[i].deleted_at
       /\ (/\ Answers("GET /products", tok)
           /\ resp'.status = 200
           /\ GetProducts(tok, d))
          => /\ d \notin {"only", "true"}
                => \A i \in Listed("products") : ~products[i].deleted_at
             /\ d = "only"
                => \A i \in Listed("products") : products[i].deleted_at]_vars

\* ------------------------------------------------------ failure-cause claims
\* C21: a shift close fails with its own cause and changes nothing: an id
\* that is absent or of another tenant is answered 404, a shift of the
\* caller's tenant that is already closed is answered 400, and a closing
\* cash below zero is answered 400.
C21_CloseFailuresDistinct ==
  [][\A s \in 1..MaxReqs, tok \in Tokens, id \in ShiftIds,
        c \in FinalCashInputs :
       LET ctx == LoadBusinessContext(tok)
           known == id \in Live(shifts) /\ InScope(ctx, shifts[id].business_id)
       IN (/\ resp'.op = "close"
           /\ ctx.status = 200
           /\ c # Undefined
           /\ CloseShiftCheck(s, tok, id, c))
          => /\ (~known /\ ~LtZero(c))
                => resp'.status = 404 /\ shifts' = shifts
             /\ (known /\ shifts[id].status = "closed" /\ ~LtZero(c))
                => resp'.status = 400 /\ shifts' = shifts
             /\ (known /\ shifts[id].status = "open" /\ LtZero(c))
                => resp'.status = 400 /\ shifts' = shifts]_vars

\* ------------------------------------------------------ storage rejections
\* The store's one-open-shift index: an insert of an open shift for a pair
\* that already holds one is rejected.
ViolatesOneOpenShift(user_id, businessId) ==
  OpenShifts(user_id, businessId) # {}

\* The store's per-tenant index on the account email.
ViolatesUniqueEmail(email, businessId) ==
  \E i \in Live(users) : /\ users[i].email = email
                         /\ users[i].business_id = businessId

\* The insert of POST /shifts/start returns an error: `if (error) throw
\* error` and the catch block's response.
StartShiftInsertError(s) ==
  /\ reqs[s].op = "start"
  /\ resp' = Reply("start", reqs[s].tok.id, 500, Error("Error al iniciar turno"))
  /\ reqs' = [reqs EXCEPT ![s] = Idle]
  /\ UNCHANGED <<tenancy, catalog, shifts, transactions, workers, quota>>

\* POST /users up to its insert: the middleware, the validation and the
\* lookup of the email in the caller's tenant.
PostUserCheck(s, tok, email, role) ==
  /\ Accepts(s)
  /\ LET r == PostUserResult(tok, email, role)
     IN IF r.status # 201
        THEN /\ resp' = Reply("POST /users", tok.id, r.status, r.data)
             /\ reqs' = reqs
        ELSE /\ reqs' = [reqs EXCEPT ![s] =
                  [op |-> "POST /users", tok |-> tok, email |-> email,
                   role |-> role,
                   businessId |-> LoadBusinessContext(tok).businessId]]
             /\ resp' = resp
  /\ Arrives
  /\ UNCHANGED <<tenancy, catalog, shifts, transactions, workers>>

\* The insert of POST /users and its 201 response.
PostUserInsert(s) ==
  /\ reqs[s].op = "POST /users"
  /\ Len(users) < MaxUsers
  /\ LET r == reqs[s]
     IN /\ users' = Append(users, UserRow(r.businessId, r.role, r.email))
        /\ resp' = Reply("POST /users", r.tok.id, 201, [id |-> Len(users) + 1])
  /\ reqs' = [reqs EXCEPT ![s] = Idle]
  /\ UNCHANGED <<businesses, catalog, shifts, transactions, workers, quota>>

\* The insert of POST /users returns an error: the catch block's response.
PostUserInsertError(s) ==
  /\ reqs[s].op = "POST /users"
  /\ resp' = Reply("POST /users", reqs[s].tok.id, 500, Error("Error al crear usuario"))
  /\ reqs' = [reqs EXCEPT ![s] = Idle]
  /\ UNCHANGED <<tenancy, catalog, shifts, transactions, workers, quota>>

\* Starts and account creations served concurrently by a store that holds
\* both indexes: an insert goes through unless it violates one of them.
InitConstraint == InitStore /\ workers = MaxReqs /\ quota = Unlimited

NextConstraint ==
  \E s \in 1..MaxReqs :
    \/ \E tok \in StaffTokens, c \in {JNum(1), JNum(-1)} :
         StartShiftCheck(s, tok, tok.id, c)
    \/ /\ reqs[s].op = "start"
       /\ ~ViolatesOneOpenShift(reqs[s].user_id, reqs[s].businessId)
       /\ StartShiftInsert(s)
    \/ /\ reqs[s].op = "start"
       /\ ViolatesOneOpenShift(reqs[s].user_id, reqs[s].businessId)
       /\ StartShiftInsertError(s)
    \/ \E tok \in StaffTokens, id \in ShiftIds : CloseShiftCheck(s, tok, id, JNum(2))
    \/ CloseShiftSum(s)
    \/ CloseShiftUpdate(s)
    \/ \E tok \in StaffTokens, e \in EmailInputs : PostUserCheck(s, tok, e, "cajero")
    \/ /\ reqs[s].op = "POST /users"
       /\ ~ViolatesUniqueEmail(reqs[s].email, reqs[s].businessId)
       /\ PostUserInsert(s)
    \/ /\ reqs[s].op = "POST /users"
       /\ ViolatesUniqueEmail(reqs[s].email, reqs[s].businessId)
       /\ PostUserInsertError(s)

SpecConstraint == InitConstraint /\ [][NextConstraint]_vars

\* C22: when the store rejects the insert of a shift start or of an account
\* creation whose pre-check passed, because the row would be a second open
\* shift of its pair or a second account with its email in the tenant, the
\* request is answered 400 with the pre-check's error and never 500.
C22_RejectedInsertIsDomainError ==
  [][\A s \in 1..MaxReqs :
       /\ (/\ reqs[s].op = "start"
           /\ reqs'[s] = Idle
           /\ ViolatesOneOpenShift(reqs[s].user_id, reqs[s].businessId))
          => resp' = Reply("start", reqs[s].tok.id, 400,
                           Error("El usuario ya tiene un turno abierto"))
       /\ (/\ reqs[s].op = "POST /users"
           /\ reqs'[s] = Idle
           /\ ViolatesUniqueEmail(reqs[s].email, reqs[s].businessId))
          => resp' = Reply("POST /users", reqs[s].tok.id, 400,
                           Error("El email ya está registrado en esta empresa"))]_vars

\* --------------------------------------------------------- role check claim
\* requireRole(...roles): the principal's role is one of the route's roles.
RequireRole(roles, tok) == tok.role \in roles

\* The middleware chain of a protected mount, in the order app.use lists
\* it: loadBusinessContext, then requireRole. lookups counts the storage
\* reads made before the chain answers or hands over to the router.
Mount(roles, tok) ==
  LET ctx == LoadBusinessContext(tok)
  IN IF ctx.status # 200
       THEN [status |-> ctx.status, lookups |-> ctx.lookups]
     ELSE IF ~RequireRole(roles, tok)
       THEN [status |-> 403, lookups |-> ctx.lookups]
     ELSE [status |-> 200, lookups |-> ctx.lookups]

BusinessesMount(tok) == Mount({"super_admin"}, tok)
UsersMount(tok) == Mount({"super_admin", "admin"}, tok)

\* C23: on the tenants and accounts mounts a request whose role is not among
\* the mount's roles is denied (403) without a storage read having been made
\* for it.
C23_RoleCheckBeforeStorage ==
  \A tok \in IssuedTokens :
    /\ ~RequireRole({"super_admin"}, tok)
       => /\ BusinessesMount(tok).status = 403
          /\ BusinessesMount(tok).lookups = 0
    /\ ~RequireRole({"super_admin", "admin"}, tok)
       => /\ UsersMount(tok).status = 403
          /\ UsersMount(tok).lookups = 0

\* --------------------------------------------------------- storage failures
\* POST /shifts/start when the lookup of an open shift fails: the handler
\* reads `data` alone, finds none and goes on to the insert. lookupError
\* records on the request that its lookup failed.
StartShiftCheckError(s, tok, user_id, body_cash) ==
  /\ Accepts(s)
  /\ LET ctx == LoadBusinessContext(tok)
         initial_cash == IF body_cash = Undefined THEN JNum(0) ELSE body_cash
         fail(code, message) ==
           /\ resp' = Reply("start", tok.id, code, Error(message))
           /\ reqs' = reqs
     IN IF ctx.status # 200 THEN fail(ctx.status, ctx.error)
        ELSE IF LtZero(initial_cash)
          THEN fail(400, "El efectivo inicial no puede ser negativo")
        ELSE IF ctx.businessId = NoBusiness
          THEN fail(400, "No se pudo determinar la empresa")
        ELSE /\ Room("start", shifts, MaxShifts)
             /\ reqs' = [reqs EXCEPT ![s] =
                  [op |-> "start", tok |-> tok, user_id |-> user_id,
                   initial_cash |-> initial_cash,
                   businessId |-> ctx.businessId, lookupError |-> TRUE]]
             /\ resp' = resp
  /\ Arrives
  /\ UNCHANGED <<tenancy, catalog, shifts, transactions, workers>>

\* The sales lookup of the close handler fails: `cashTransactions?.reduce(...)
\* || 0` makes cashSales 0 and the handler goes on to the update.
CloseShiftSumError(s) ==
  /\ reqs[s].op = "close"
  /\ reqs[s].pc = "sum"
  /\ LET r == reqs[s]
     IN reqs' = [reqs EXCEPT ![s] =
          [op |-> "close", pc |-> "update", tok |-> r.tok, id |-> r.id,
           final_cash |-> r.final_cash, shift |-> r.shift,
           cashSales |-> Num(0), lookupError |-> TRUE]]
  /\ UNCHANGED <<tenancy, catalog, shifts, transactions, resp, workers, quota>>

\* The steps of DELETE /businesses/:id that fail in a request: none, the
\* first, or one of the last two.
DeleteFailures == {{}, {"transactions"}, {"users"}, {"businesses"}}

\* .delete().eq('business_id', id) on a table; a failed step removes nothing.
Purge(table, id, step, failed) ==
  IF step \in failed THEN table
  ELSE [i \in DOMAIN table |->
          IF table[i].business_id = id THEN [table[i] EXCEPT !.gone = TRUE]
          ELSE table[i]]

\* DELETE /businesses/:id: the tenant's sales, shifts, catalog items,
\* categories and accounts, then the tenant row. A failure of one of the
\* first four steps is logged and passed over; a failure of the last two is
\* thrown.
DeleteBusiness(tok, id, failed) ==
  /\ Serve
  /\ LET ctx == LoadBusinessContext(tok)
         business == Single({b \in Live(businesses) : b = id})
         op == "DELETE /businesses/:id"
         refuse(code, message) ==
           /\ resp' = Reply(op, tok.id, code, Error(message))
           /\ UNCHANGED <<businesses, users, categories, products, shifts,
                          transactions>>
     IN IF ctx.status # 200 THEN refuse(ctx.status, ctx.error)
        ELSE IF ~RequireSuperAdmin(ctx)
          THEN refuse(403, "Solo super administradores pueden acceder a esta función")
        ELSE IF business.error THEN refuse(404, "Empresa no encontrada")
        ELSE /\ transactions' = Purge(transactions, id, "transactions", failed)
             /\ shifts' = Purge(shifts, id, "shifts", failed)
             /\ products' = Purge(products, id, "products", failed)
             /\ categories' = Purge(categories, id, "categories", failed)
             /\ users' = Purge(users, id, "users", failed)
             /\ IF "users" \in failed \/ "businesses" \in failed
                THEN /\ businesses' = businesses
                     /\ resp' = Reply(op, tok.id, 500,
                                      Error("Error al eliminar empresa"))
                ELSE /\ businesses' = [businesses EXCEPT ![id].gone = TRUE]
                     /\ resp' = Reply(op, tok.id, 200, NoData)
  /\ UNCHANGED <<service_types, tickets>>

\* The shift ledger and the tenant deletion over a store whose calls may
\* fail, one request at a time.
NextFailure ==
  \/ \E tok \in Tokens, c \in {JNum(1), JNum(-1)} :
       StartShiftCheck(1, tok, tok.id, c)
  \/ \E tok \in Tokens, c \in {JNum(1), JNum(-1)} :
       StartShiftCheckError(1, tok, tok.id, c)
  \/ StartShiftInsert(1)
  \/ \E tok \in Tokens, id \in ShiftIds : CloseShiftCheck(1, tok, id, JNum(3))
  \/ CloseShiftSum(1)
  \/ CloseShiftSumError(1)
  \/ CloseShiftUpdate(1)
  \/ \E tok \in Tokens, id \in BusinessIds, failed \in DeleteFailures :
       DeleteBusiness(tok, id, failed)

SpecFailure == InitTenant /\ [][NextFailure]_vars

\* A request whose storage lookup failed.
LookupFailed(s) == "lookupError" \in DOMAIN reqs[s]

\* C24: no storage failure is passed over: a close whose sales lookup
\* failed and a start whose open-shift lookup failed end without success and
\* write no shift; a tenant deletion one of whose steps failed does not
\* answer success.
C24_NoFailureSwallowed ==
  [][/\ \A s \in 1..MaxReqs :
          (LookupFailed(s) /\ reqs'[s] = Idle)
          => resp'.status >= 400 /\ shifts' = shifts
     /\ \A tok \in Tokens, id \in BusinessIds, failed \in DeleteFailures :
          (/\ Answers("DELETE /businesses/:id", tok)
           /\ failed # {}
           /\ id \in Live(businesses)
           /\ RequireSuperAdmin(LoadBusinessContext(tok))
           /\ DeleteBusiness(tok, id, failed))
          => resp'.status >= 400]_vars

\* -------------------------------------------------------- concurrent ledger
\* C25: under any interleaving of sale requests with the close of their
\* shift, the variance stored on a closed shift is its closing cash minus
\* its opening cash plus the totals of every completed cash sale attached to
\* it: no such sale is attached without being counted.
C25_VarianceCountsEverySale ==
  \A i \in DOMAIN shifts :
    (/\ shifts[i].status = "closed"
     /\ ~shifts[i].final_cash.null
     /\ ~shifts[i].cash_difference.null)
    => shifts[i].cash_difference.v =
         shifts[i].final_cash.v
         - (shifts[i].initial_cash.v + CashSalesUpTo(i, Len(transactions)))

\* ----------------------------------------------------- reference integrity
\* The references of tenant-owned rows that leave the referring row's tenant.
ShiftAccountInTenant ==
  \A i \in Live(shifts) :
    users[shifts[i].user_id].business_id = shifts[i].business_id
SaleShiftInTenant ==
  \A t \in Live(transactions) :
    shifts[transactions[t].shift_id].business_id = transactions[t].business_id
SaleItemInTenant ==
  \A t \in Live(transactions) :
    products[transactions[t].product_id].business_id
      = transactions[t].business_id
SaleCreatorInTenant ==
  \A t \in Live(transactions) :
    users[transactions[t].created_by].business_id = transactions[t].business_id
ItemCategoryInTenant ==
  \A p \in Live(products) :
    categories[products[p].category_id].business_id = products[p].business_id

\* C26: every reference between tenant-owned rows stays inside one tenant: a
\* shift and its account, a sale and its shift, its catalog item and its
\* creating account, a catalog item and its category carry the same tenant.
C26_ReferencesStayInTenant ==
  /\ ShiftAccountInTenant
  /\ SaleShiftInTenant
  /\ SaleItemInTenant
  /\ SaleCreatorInTenant
  /\ ItemCategoryInTenant

\* -------------------------------------------------------------- login claim
\* Accounts created and switched by the callers the accounts mount admits,
\* passwords changed, and logins, one request at a time.
NextLogin ==
  \/ \E tok \in Tokens, e \in LoginEmailInputs :
       /\ RequireRole({"super_admin", "admin"}, tok)
       /\ PostUser(tok, e, "cajero")
  \/ \E tok \in Tokens, id \in UserIdInputs :
       /\ RequireRole({"super_admin", "admin"}, tok)
       /\ ToggleUser(tok, id)
  \/ \E tok \in Tokens, c \in PasswordInputs, n \in NewPasswordInputs :
       ChangePassword(tok, c, n)
  \/ \E e \in LoginEmailInputs, p \in PasswordInputs : Login(e, p)

SpecLogin == InitOperator /\ [][NextLogin]_vars

\* The active accounts a pair of credentials belongs to.
AccountsOf(email, password) ==
  {i \in Live(users) : /\ users[i].email = email
                       /\ users[i].active
                       /\ ~users[i].deleted_at
                       /\ Compare(password, users[i].password_hash)}

\* C27: a login with the email and the password of an active account is
\* answered 200 with a token of that account, whatever other accounts the
\* table holds, one of another tenant with the same email included.
C27_ActiveAccountLogsIn ==
  [][\A e \in LoginEmailInputs, p \in PasswordInputs :
       (/\ resp'.op = "POST /auth/login"
        /\ p # ""
        /\ AccountsOf(e, p) # {}
        /\ Login(e, p))
       => /\ resp'.status = 200
          /\ resp'.data.token.id \in AccountsOf(e, p)]_vars

\* ------------------------------------------------------ tenant provisioning
\* The steps of POST /businesses after the tenant insert that fail in a
\* request: the owner insert, or the owner insert and the delete that is to
\* undo the tenant insert.
ProvisionFailures == {{"users"}, {"users", "delete"}}

\* POST /businesses when the owner insert fails: the handler deletes the
\* tenant row it has just inserted, without reading that delete's outcome,
\* and throws.
PostBusinessOwnerError(tok, slug, adminEmail, failed) ==
  /\ Serve
  /\ LET r == PostBusinessResult(tok, slug, adminEmail)
         business == BusinessRow(ToLowerCase(slug))
     IN IF r.status # 201
        THEN /\ resp' = Reply("POST /businesses", tok.id, r.status, r.data)
             /\ businesses' = businesses
        ELSE /\ Len(businesses) < MaxBusinesses
             /\ businesses' =
                  Append(businesses,
                         IF "delete" \in failed THEN business
                         ELSE [business EXCEPT !.gone = TRUE])
             /\ resp' = Reply("POST /businesses", tok.id, 500,
                              Error("Error al crear empresa"))
  /\ UNCHANGED <<users, catalog, shifts, transactions>>

\* The operator provisions tenants, with slugs in either letter case, over a
\* store whose owner insert may fail; tenants are switched and accounts log
\* in meanwhile.
NextProvision ==
  \/ \E tok \in Tokens, slug \in SlugInputs \cup {"A"}, e \in EmailInputs :
       PostBusiness(tok, slug, e)
  \/ \E tok \in Tokens, slug \in SlugInputs, e \in EmailInputs,
        failed \in ProvisionFailures :
       PostBusinessOwnerError(tok, slug, e, failed)
  \/ \E tok \in Tokens, id \in BusinessIds : ToggleBusiness(tok, id)
  \/ \E e \in LoginEmailInputs, p \in PasswordInputs : Login(e, p)

SpecProvision == InitOperator /\ [][NextProvision]_vars

\* C28: no two tenant rows have the same stored slug: a create whose slug
\* is an existing tenant's stored slug, in any letter case, is refused.
C28_StoredSlugsDistinct ==
  \A b \in Live(businesses), c \in Live(businesses) :
    businesses[b].slug = businesses[c].slug => b = c

\* The owner accounts of a tenant after a step.
OwnersAfter(b) ==
  {i \in Live(users') : users'[i].business_id = b /\ users'[i].role = "admin"}

\* C29: a tenant create is all or nothing: it answers success and leaves
\* one new tenant with exactly one owner account bound to it, or it answers
\* a failure and leaves no new tenant and no new account, also when the
\* owner insert or the delete undoing the tenant insert fails.
C29_ProvisioningAllOrNothing ==
  [][(resp'.op = "POST /businesses" /\ reqs' = reqs)
     => LET created == Live(businesses') \ Live(businesses)
        IN \/ /\ resp'.status = 201
              /\ Cardinality(created) = 1
              /\ \A b \in created : Cardinality(OwnersAfter(b)) = 1
           \/ /\ resp'.status >= 400
              /\ created = {}
              /\ users' = users]_vars

\* ------------------------------------------------------- operator role claim
Operators(table) == {i \in Live(table) : table[i].role = "super_admin"}

\* C30: an account create or update, by any caller the accounts mount
\* admits, leaves the set of operator accounts as it was, creating none and
\* turning no account into or out of one, and leaves every account's tenant
\* reference as it was.
C30_OperatorsAndBindingsKept ==
  [][\A tok \in Tokens :
       (/\ resp'.by = tok.id
        /\ resp'.op \in {"POST /users", "PUT /users/:id"}
        /\ reqs' = reqs
        /\ RequireRole({"super_admin", "admin"}, tok))
       => /\ Operators(users') = Operators(users)
          /\ \A i \in DOMAIN users :
               users'[i].business_id = users[i].business_id]_vars

====
